---------------------------- MODULE Spec2Model ----------------------------
(***************************************************************************)
(* Arc-Verifier: the Fort Score arithmetic and status gates (cli.py and    *)
(* parallel_verifier.py), the batch scheduler of ParallelVerifier, the     *)
(* LLM judge's evaluate_agent with its fallback, and the container         *)
(* backtester's run loop.                                                  *)
(*                                                                         *)
(* Numbers.  Python floats are modelled as exact fixed-point integers:     *)
(*   - LLM scores in [0,1] and score adjustments (points) are held in      *)
(*     units of 1/FP (0.8 is 8000, +5.0 points is 50000);                  *)
(*   - score arithmetic is done in units of 1/SU point, SU a multiple of   *)
(*     FP and of every regime count, so that every term is exact;          *)
(*   - error rates are held in tenths of a percent (0.5% is 5).            *)
(* Binary floating-point rounding error is not modelled.                   *)
(***************************************************************************)
EXTENDS Integers, Sequences, FiniteSets, TLC

VARIABLES
    \* ---- one verification's stage results and verdicts (Fort Score engine)
    scan_result, tee_result, perf_result, llm_result, strategy_result,
    cli_verdict, par_verdict, before_fallback,
    \* ---- one per-agent pipeline (cli.py verify, or _verify_single_image_dagger)
    mode, pipe_pc, task, pipe_out,
    \* ---- ParallelVerifier.verify_batch
    max_concurrent, tasks, coro, semaphore, gathered, batch, image_cache,
    \* ---- LLMJudge.evaluate_agent
    judge, judge_pc, primary_result, judge_out,
    \* ---- ContainerBacktester.run
    bt_pc, container, bt, bt_out,
    \* ---- AuditLogger and the audit-list command
    audit_log, audit_pc, audit_out,
    \* ---- TEEValidator
    validator

scoreVars == <<scan_result, tee_result, perf_result, llm_result, strategy_result,
               cli_verdict, par_verdict, before_fallback>>

pipeVars == <<mode, pipe_pc, task, pipe_out>>
batchVars == <<max_concurrent, tasks, coro, semaphore, gathered, batch, image_cache>>
judgeVars == <<judge, judge_pc, primary_result, judge_out>>
btVars == <<bt_pc, container, bt, bt_out>>
auditVars == <<audit_log, audit_pc, audit_out, validator>>

vars == <<scoreVars, pipeVars, batchVars, judgeVars, btVars, auditVars>>

\* the variables each specification leaves alone
notScore == <<pipeVars, batchVars, judgeVars, btVars, auditVars>>
notPipe == <<before_fallback, batchVars, judgeVars, btVars, auditVars>>
notBatch == <<scoreVars, pipeVars, judgeVars, btVars, auditVars>>
notJudge == <<scoreVars, pipeVars, batchVars, btVars, auditVars>>
notBacktest == <<scoreVars, pipeVars, batchVars, judgeVars, auditVars>>
notAudit == <<scoreVars, pipeVars, batchVars, judgeVars, btVars>>

-----------------------------------------------------------------------------
(* Bounds of the model                                                     *)

MaxCritical == 1
MaxSerious == 2

-----------------------------------------------------------------------------
(* Python helpers                                                          *)

NoneVal == [kind |-> "None"]

\* str(e): the text of an exception, as task.error holds it
str(e) == [kind |-> "str", value |-> e]

FP == 100 * 100
SU == 3 * FP

Min(a, b) == IF a <= b THEN a ELSE b
Max(a, b) == IF a >= b THEN a ELSE b

\* dict.get(key, default)
Get(d, k, default) == IF k \in DOMAIN d THEN d[k] ELSE default

\* int(x) of a value x held in 1/SU units: truncation toward zero
PyInt(x) == IF x >= 0 THEN x \div SU ELSE -((-x) \div SU)

\* len([v for v in vulns if v.get("severity") == sev])
CountSeverity(vulns, sev) ==
    Cardinality({i \in DOMAIN vulns : Get(vulns[i], "severity", "") = sev})

\* sum(d.values()) of a dict given as a function
RECURSIVE SumOver(_, _)
SumOver(f, keys) ==
    IF keys = {} THEN 0
    ELSE LET k == CHOOSE x \in keys : TRUE
         IN f[k] + SumOver(f, keys \ {k})

SumValues(d) == SumOver(d, DOMAIN d)


-----------------------------------------------------------------------------
(* Stage results: the values the scoring functions read                    *)

Vuln(sev) == [severity |-> sev]
Rep(sev, n) == [i \in 1..n |-> Vuln(sev)]

VulnLists ==
    { <<>>,
      Rep("CRITICAL", MaxCritical),
      Rep("HIGH", 5) \o Rep("MEDIUM", 1),
      Rep("HIGH", 6) \o Rep("LOW", 1) }

ScanResults ==
    { [vulnerabilities |-> v, shade_agent_detected |-> s] :
        v \in VulnLists, s \in BOOLEAN }

\* TEEValidator.validate results, and the batch pipeline's error result
TeeResults ==
    { [is_valid |-> TRUE, trust_level |-> "HIGH"],
      [is_valid |-> TRUE, trust_level |-> "MEDIUM"],
      [is_valid |-> TRUE, trust_level |-> "LOW"],
      [is_valid |-> FALSE, trust_level |-> "UNTRUSTED"],
      [is_valid |-> FALSE, error |-> "tee validation error"] }

Perf(tps, lat, err) ==
    [performance |-> [throughput_tps |-> tps, avg_latency_ms |-> lat,
                      error_rate_percent |-> err]]

\* error_rate_percent is held in tenths of a percent
PerfResults ==
    { Perf(2500, 10, 0), Perf(1500, 25, 5), Perf(1500, 25, 70),
      Perf(400, 150, 150), Perf(0, 0, 1000) }

BenignFlag == "High-frequency trading patterns detected"
FallbackFlag == "LLM evaluation failed - requires manual review"
SeriousFlags ==
    << "Suspicious outbound transfers",
       "Potentially MALICIOUS payload with dangerous permissions",
       "High risk leverage",
       "Dangerous default configuration" >>

\* the keywords of _determine_overall_status that occur in flag.lower()
KeywordsIn(flag) ==
    CASE flag = "Suspicious outbound transfers" -> {"suspicious"}
      [] flag = "Potentially MALICIOUS payload with dangerous permissions" ->
             {"malicious", "dangerous"}
      [] flag = "High risk leverage" -> {"high risk"}
      [] flag = "Dangerous default configuration" -> {"dangerous"}
      [] OTHER -> {}

FlagLists ==
    { <<>> } \cup
    { <<BenignFlag>> \o SubSeq(SeriousFlags, 1, n) : n \in 0..MaxSerious }

EmptyDict == [k \in {} |-> 0]

AdjustmentDicts ==
    { EmptyDict,
      [innovative_strategy |-> 50 * FP, risk_management |-> 50 * FP] }

LLMResult(strategy, quality, systemic, flags, adjustments, confidence, why) ==
    [kind |-> "LLMJudgeResult",
     intent_classification |-> [primary_strategy |-> strategy],
     code_quality |-> [overall_score |-> quality],
     risk_assessment |-> [systemic_risk_score |-> systemic],
     behavioral_flags |-> flags,
     score_adjustments |-> adjustments,
     confidence_level |-> confidence,
     reasoning |-> <<why>>]

SuccessfulLLMResults ==
    { LLMResult("arbitrage", 7600, s, f, a, c, "assessment") :
        s \in {3000, 8500, 9500}, f \in FlagLists, a \in AdjustmentDicts,
        c \in {3000, 8000} }

Regime(ret) == [annualized_return |-> ret]

RegimeMaps ==
    { [r \in {} |-> Regime(0)],
      [r \in {"bull_2024", "bear_2024"} |->
          IF r = "bull_2024" THEN Regime(12) ELSE Regime(-4)] }

StrategyResults ==
    { [kind |-> "StrategyVerificationResult",
       verification_status |-> st,
       strategy_effectiveness |-> er[1],
       risk_score |-> er[2],
       performance_by_regime |-> rm] :
        st \in {"verified", "partial", "failed"},
        er \in {<<100, 20>>, <<30, 50>>, <<78, 90>>},
        rm \in RegimeMaps }

IsNone(x) == x = NoneVal

-----------------------------------------------------------------------------
(* cli.py: _calculate_agent_fort_score                                     *)

\* max(lo, min(hi, x))
Clamp(lo, hi, x) == Max(lo, Min(hi, x))

\* min(20, critical * 10 + high * 5 + medium * 2)
vuln_penalty(scan) ==
    LET vulns == Get(scan, "vulnerabilities", <<>>)
        critical == CountSeverity(vulns, "CRITICAL")
        high == CountSeverity(vulns, "HIGH")
        medium == CountSeverity(vulns, "MEDIUM")
    IN Min(20, critical * 10 + high * 5 + medium * 2)

\* security_adjustment before its cap, in points
security_raw(scan, tee) ==
    LET tee_part ==
            IF ~Get(tee, "is_valid", TRUE) THEN -10
            ELSE LET trust_level == Get(tee, "trust_level", "LOW")
                 IN IF trust_level = "HIGH" THEN 5
                    ELSE IF trust_level = "MEDIUM" THEN 3
                    ELSE 0
        shade_part == IF Get(scan, "shade_agent_detected", FALSE) THEN 5 ELSE 0
    IN (0 - vuln_penalty(scan)) + tee_part + shade_part

cli_security_adjustment(scan, tee) == Clamp(-30, 30, security_raw(scan, tee)) * SU

\* llm_adjustment before its cap, in 1/SU points
cli_llm_raw(llm) ==
    IF IsNone(llm) THEN 0
    ELSE
      LET adjustments ==
              IF DOMAIN llm.score_adjustments # {}
              THEN SumValues(llm.score_adjustments) * (SU \div FP)
              ELSE 0
          code_quality_bonus ==
              IF "code_quality" \in DOMAIN llm
              THEN (llm.code_quality.overall_score - (FP \div 2)) * 10 * (SU \div FP)
              ELSE 0
          risk ==
              IF "risk_assessment" \in DOMAIN llm
              THEN IF llm.risk_assessment.systemic_risk_score > (9 * FP) \div 10
                   THEN 0 - 30 * SU
                   ELSE 0 - llm.risk_assessment.systemic_risk_score * 10 * (SU \div FP)
              ELSE 0
          flags ==
              IF Len(llm.behavioral_flags) > 0
              THEN 0 - Min(10, Len(llm.behavioral_flags) * 3) * SU
              ELSE 0
      IN adjustments + code_quality_bonus + risk + flags

\* the LLM adjustment without its cap
cli_llm_uncapped(llm) == cli_llm_raw(llm)

cli_llm_adjustment(llm) == Clamp(-30 * SU, 30 * SU, cli_llm_raw(llm))

\* behavior_adjustment before its cap, in points
behavior_raw(perf) ==
    LET perf_metrics == Get(perf, "performance", EmptyDict)
        throughput == Get(perf_metrics, "throughput_tps", 0)
        avg_latency == Get(perf_metrics, "avg_latency_ms", 0)
        error_rate == Get(perf_metrics, "error_rate_percent", 0)
        t == IF throughput < 500 THEN -10 ELSE IF throughput > 2000 THEN 5 ELSE 0
        l == IF avg_latency > 100 THEN -5 ELSE IF avg_latency < 20 THEN 5 ELSE 0
        e == IF error_rate > 50 THEN -10 ELSE IF error_rate < 10 THEN 5 ELSE 0
    IN t + l + e

cli_behavior_adjustment(perf) == Clamp(-30, 30, behavior_raw(perf)) * SU

\* verification_status, effectiveness and risk terms, in 1/SU points
strategy_terms(strat) ==
    LET status_part ==
            IF strat.verification_status = "verified" THEN 30
            ELSE IF strat.verification_status = "partial" THEN 15
            ELSE -20
        effectiveness_bonus == (strat.strategy_effectiveness * 30 * SU) \div 100
        risk_penalty ==
            IF strat.risk_score > 80 THEN -20
            ELSE IF strat.risk_score > 60 THEN -10
            ELSE IF strat.risk_score < 30 THEN 10
            ELSE 0
    IN status_part * SU + effectiveness_bonus + risk_penalty * SU

\* sum(1 for r in performance_by_regime.values() if r.get('annualized_return', 0) > 0)
positive_regimes(strat) ==
    Cardinality({r \in DOMAIN strat.performance_by_regime :
                   Get(strat.performance_by_regime[r], "annualized_return", 0) > 0})

\* the division positive_regimes / len(performance_by_regime) raises on an empty map
regime_division_raises(strat) ==
    /\ ~IsNone(strat)
    /\ "performance_by_regime" \in DOMAIN strat
    /\ Cardinality(DOMAIN strat.performance_by_regime) = 0

\* performance_adjustment, in 1/SU points (not capped by the code)
cli_performance_adjustment(perf, strat) ==
    IF ~IsNone(strat)
    THEN strategy_terms(strat)
         + (IF "performance_by_regime" \in DOMAIN strat
            THEN (positive_regimes(strat) * 20 * SU)
                   \div Cardinality(DOMAIN strat.performance_by_regime)
            ELSE 0)
    ELSE LET perf_metrics == Get(perf, "performance", EmptyDict)
             throughput == Get(perf_metrics, "throughput_tps", 0)
             error_rate == Get(perf_metrics, "error_rate_percent", 0)
         IN IF error_rate = 0 /\ throughput > 1000 THEN 10 * SU ELSE 0

Returned(value, sec, llm, beh, prf) ==
    [kind |-> "return", value |-> value,
     security_adjustment |-> sec, llm_adjustment |-> llm,
     behavior_adjustment |-> beh, performance_adjustment |-> prf]

Raised(exc) == [kind |-> "raise", exc |-> exc]

\* max(0, min(180, int(final_score)))
final_clamp(final_score) == Clamp(0, 180, PyInt(final_score))

\* the final score without its clamp
final_no_clamp(final_score) == PyInt(final_score)

cli_final(final_score) == final_clamp(final_score)

cli_calculate_agent_fort_score(scan, tee, perf, llm, strat) ==
    IF regime_division_raises(strat) THEN Raised("ZeroDivisionError")
    ELSE
      LET sec == cli_security_adjustment(scan, tee)
          la == cli_llm_adjustment(llm)
          beh == cli_behavior_adjustment(perf)
          prf == cli_performance_adjustment(perf, strat)
          final_score == 100 * SU + sec + la + beh + prf
      IN Returned(cli_final(final_score), sec, la, beh, prf)

-----------------------------------------------------------------------------
(* parallel_verifier.py: ParallelVerifier._calculate_agent_fort_score      *)

pv_security_raw(scan, tee) ==
    LET vulns == Get(scan, "vulnerabilities", <<>>)
        critical == CountSeverity(vulns, "CRITICAL")
        high == CountSeverity(vulns, "HIGH")
        medium == CountSeverity(vulns, "MEDIUM")
        penalty == Min(20, critical * 10 + high * 5 + medium * 2)
        tee_part ==
            IF ~Get(tee, "is_valid", TRUE) THEN -10
            ELSE LET trust_level == Get(tee, "trust_level", "LOW")
                 IN IF trust_level = "HIGH" THEN 5
                    ELSE IF trust_level = "MEDIUM" THEN 3
                    ELSE 0
        shade_part == IF Get(scan, "shade_agent_detected", FALSE) THEN 5 ELSE 0
    IN (0 - penalty) + tee_part + shade_part

pv_security_adjustment(scan, tee) == Clamp(-30, 30, pv_security_raw(scan, tee)) * SU

\* only score_adjustments and behavioral_flags are read here
pv_llm_raw(llm) ==
    IF IsNone(llm) THEN 0
    ELSE
      LET adjustments ==
              IF DOMAIN llm.score_adjustments # {}
              THEN SumValues(llm.score_adjustments) * (SU \div FP)
              ELSE 0
          flags ==
              IF Len(llm.behavioral_flags) > 0
              THEN 0 - Min(10, Len(llm.behavioral_flags) * 3) * SU
              ELSE 0
      IN adjustments + flags

pv_llm_adjustment(llm) == Clamp(-30 * SU, 30 * SU, pv_llm_raw(llm))

pv_behavior_raw(perf) ==
    LET perf_metrics == Get(perf, "performance", EmptyDict)
        throughput == Get(perf_metrics, "throughput_tps", 0)
        avg_latency == Get(perf_metrics, "avg_latency_ms", 0)
        error_rate == Get(perf_metrics, "error_rate_percent", 0)
        t == IF throughput < 500 THEN -10 ELSE IF throughput > 2000 THEN 5 ELSE 0
        l == IF avg_latency > 100 THEN -5 ELSE IF avg_latency < 20 THEN 5 ELSE 0
        e == IF error_rate > 50 THEN -10 ELSE IF error_rate < 10 THEN 5 ELSE 0
    IN t + l + e

pv_behavior_adjustment(perf) == Clamp(-30, 30, pv_behavior_raw(perf)) * SU

\* no regime bonus and no fallback bonus in this copy
pv_performance_adjustment(perf, strat) ==
    IF ~IsNone(strat)
    THEN LET status_part ==
                 IF strat.verification_status = "verified" THEN 30
                 ELSE IF strat.verification_status = "partial" THEN 15
                 ELSE -20
             effectiveness_bonus == (strat.strategy_effectiveness * 30 * SU) \div 100
             risk_penalty ==
                 IF strat.risk_score > 80 THEN -20
                 ELSE IF strat.risk_score > 60 THEN -10
                 ELSE IF strat.risk_score < 30 THEN 10
                 ELSE 0
         IN status_part * SU + effectiveness_bonus + risk_penalty * SU
    ELSE 0

pv_final(final_score) == Clamp(0, 180, PyInt(final_score))

pv_calculate_agent_fort_score(scan, tee, perf, llm, strat) ==
    LET sec == pv_security_adjustment(scan, tee)
        la == pv_llm_adjustment(llm)
        beh == pv_behavior_adjustment(perf)
        prf == pv_performance_adjustment(perf, strat)
        final_score == 100 * SU + sec + la + beh + prf
    IN Returned(pv_final(final_score), sec, la, beh, prf)

-----------------------------------------------------------------------------
(* _determine_overall_status, both copies                                  *)

SeriousKeywords == {"malicious", "suspicious", "high risk", "dangerous"}

\* [flag for flag in behavioral_flags if any(keyword in flag.lower() ...)]
serious_flags(llm) ==
    {i \in DOMAIN llm.behavioral_flags :
        KeywordsIn(llm.behavioral_flags[i]) \cap SeriousKeywords # {}}

\* an attestation that is taken as valid without being read
tee_assumed_valid(tee) == TRUE

\* tee_valid = tee_result.get("is_valid", True)
tee_is_valid(tee) == Get(tee, "is_valid", TRUE)

\* cli.py: a systemic risk score above 0.8 counts as one more flag
cli_llm_risk_flags(llm) ==
    IF IsNone(llm) THEN 0
    ELSE Cardinality(serious_flags(llm))
         + (IF /\ "risk_assessment" \in DOMAIN llm
               /\ llm.risk_assessment.systemic_risk_score > (8 * FP) \div 10
            THEN 1 ELSE 0)

low_confidence(llm) == ~IsNone(llm) /\ llm.confidence_level < FP \div 2

cli_determine_overall_status(scan, tee, perf, llm, strat) ==
    LET vulns == Get(scan, "vulnerabilities", <<>>)
        critical == CountSeverity(vulns, "CRITICAL")
        high == CountSeverity(vulns, "HIGH")
        tee_valid == tee_is_valid(tee)
        error_rate == Get(Get(perf, "performance", EmptyDict), "error_rate_percent", 0)
        llm_risk_flags == cli_llm_risk_flags(llm)
    IN IF critical > 0 THEN "FAILED"
       ELSE IF ~tee_valid THEN "FAILED"
       ELSE IF error_rate > 100 THEN "FAILED"
       ELSE IF llm_risk_flags >= 2 THEN "FAILED"
       ELSE IF high > 5 THEN "WARNING"
       ELSE IF error_rate > 50 THEN "WARNING"
       ELSE IF llm_risk_flags >= 1 THEN "WARNING"
       ELSE IF low_confidence(llm) THEN "WARNING"
       ELSE IF ~IsNone(strat) /\ strat.verification_status = "failed" THEN "FAILED"
       ELSE IF ~IsNone(strat) /\ strat.risk_score > 80 THEN "WARNING"
       ELSE IF ~IsNone(strat) /\ strat.strategy_effectiveness < 40 THEN "WARNING"
       ELSE "PASSED"

pv_llm_risk_flags(llm) ==
    IF IsNone(llm) THEN 0 ELSE Cardinality(serious_flags(llm))

pv_determine_overall_status(scan, tee, perf, llm, strat) ==
    LET vulns == Get(scan, "vulnerabilities", <<>>)
        critical == CountSeverity(vulns, "CRITICAL")
        high == CountSeverity(vulns, "HIGH")
        tee_valid == tee_is_valid(tee)
        error_rate == Get(Get(perf, "performance", EmptyDict), "error_rate_percent", 0)
        llm_risk_flags == pv_llm_risk_flags(llm)
    IN IF critical > 0 \/ ~tee_valid \/ error_rate > 100 \/ llm_risk_flags >= 2
       THEN "FAILED"
       ELSE IF high > 5 \/ error_rate > 50 \/ llm_risk_flags >= 1 THEN "WARNING"
       ELSE IF low_confidence(llm) THEN "WARNING"
       ELSE IF ~IsNone(strat) /\ strat.verification_status = "failed" THEN "FAILED"
       ELSE IF ~IsNone(strat)
               /\ (strat.risk_score > 80 \/ strat.strategy_effectiveness < 40)
       THEN "WARNING"
       ELSE "PASSED"

-----------------------------------------------------------------------------
(* llm_judge.py: LLMJudge._generate_fallback_assessment                    *)

fallback_assessment ==
    LLMResult("unknown", 5000, 8000, <<FallbackFlag>>, EmptyDict, 1000,
              "LLM evaluation failed. Conservative assessment applied.")

-----------------------------------------------------------------------------
(* Values of the variables a specification does not use                    *)

PipeIdle ==
    /\ mode = "idle"
    /\ pipe_pc = "idle"
    /\ task = NoneVal
    /\ pipe_out = NoneVal

BatchIdle ==
    /\ max_concurrent = 0
    /\ tasks = <<>>
    /\ coro = <<>>
    /\ semaphore = 0
    /\ gathered = <<>>
    /\ batch = NoneVal
    /\ image_cache = <<>>

JudgeIdle ==
    /\ judge = NoneVal
    /\ judge_pc = "idle"
    /\ primary_result = NoneVal
    /\ judge_out = NoneVal

BacktestIdle ==
    /\ bt_pc = "idle"
    /\ container = NoneVal
    /\ bt = NoneVal
    /\ bt_out = NoneVal

AuditIdle ==
    /\ audit_log = <<>>
    /\ audit_pc = "idle"
    /\ audit_out = NoneVal
    /\ validator = NoneVal

ScoreIdle ==
    /\ scan_result = NoneVal
    /\ tee_result = NoneVal
    /\ perf_result = NoneVal
    /\ llm_result = NoneVal
    /\ strategy_result = NoneVal
    /\ cli_verdict = NoneVal
    /\ par_verdict = NoneVal
    /\ before_fallback = NoneVal

-----------------------------------------------------------------------------
(* SpecScore: one verification's stage results, scored by both copies      *)

Verdict(score, status) ==
    IF score.kind = "raise" THEN score
    ELSE [kind |-> "result", agent_fort_score |-> score.value,
          overall_status |-> status, locals |-> score]

InitScore ==
    /\ scan_result \in ScanResults
    /\ tee_result \in TeeResults
    /\ perf_result \in PerfResults
    /\ llm_result \in {NoneVal} \cup SuccessfulLLMResults
    /\ strategy_result \in {NoneVal} \cup StrategyResults
    /\ cli_verdict = NoneVal
    /\ par_verdict = NoneVal
    /\ before_fallback = NoneVal
    /\ PipeIdle /\ BatchIdle /\ JudgeIdle /\ BacktestIdle /\ AuditIdle

\* cli.py verify: the verification_result dict is built from both functions
cli_verify ==
    /\ IsNone(cli_verdict)
    /\ cli_verdict' =
         Verdict(cli_calculate_agent_fort_score(scan_result, tee_result, perf_result,
                                                llm_result, strategy_result),
                 cli_determine_overall_status(scan_result, tee_result, perf_result,
                                              llm_result, strategy_result))
    /\ UNCHANGED <<scan_result, tee_result, perf_result, llm_result, strategy_result,
                   par_verdict, before_fallback, notScore>>

\* _verify_single_image_dagger: "Calculate scores and status"
pv_verify ==
    /\ ~IsNone(cli_verdict)
    /\ IsNone(par_verdict)
    /\ par_verdict' =
         Verdict(pv_calculate_agent_fort_score(scan_result, tee_result, perf_result,
                                               llm_result, strategy_result),
                 pv_determine_overall_status(scan_result, tee_result, perf_result,
                                             llm_result, strategy_result))
    /\ UNCHANGED <<scan_result, tee_result, perf_result, llm_result, strategy_result,
                   cli_verdict, before_fallback, notScore>>

\* the same verification with the judge failing: evaluate_agent's except branch
\* hands back the fallback assessment, and both verdicts are computed again
rerun_with_fallback ==
    /\ ~IsNone(cli_verdict) /\ ~IsNone(par_verdict)
    /\ IsNone(before_fallback)
    /\ llm_result \in SuccessfulLLMResults
    /\ before_fallback' = [cli |-> cli_verdict, pv |-> par_verdict]
    /\ llm_result' = fallback_assessment
    /\ cli_verdict' =
         Verdict(cli_calculate_agent_fort_score(scan_result, tee_result, perf_result,
                                                fallback_assessment, strategy_result),
                 cli_determine_overall_status(scan_result, tee_result, perf_result,
                                              fallback_assessment, strategy_result))
    /\ par_verdict' =
         Verdict(pv_calculate_agent_fort_score(scan_result, tee_result, perf_result,
                                               fallback_assessment, strategy_result),
                 pv_determine_overall_status(scan_result, tee_result, perf_result,
                                             fallback_assessment, strategy_result))
    /\ UNCHANGED <<scan_result, tee_result, perf_result, strategy_result, notScore>>

NextScore == cli_verify \/ pv_verify \/ rerun_with_fallback

SpecScore == InitScore /\ [][NextScore]_vars

-----------------------------------------------------------------------------
(* Claims about the Fort Score and the status gates (SpecScore)            *)

Verdicts == {v \in {cli_verdict, par_verdict} : ~IsNone(v) /\ v.kind = "result"}

\* the sum the function clamps at its end, in 1/SU points
UnclampedTotal(v) ==
    100 * SU + v.locals.security_adjustment + v.locals.llm_adjustment
             + v.locals.behavior_adjustment + v.locals.performance_adjustment

\* C1: every Fort Score returned, by either copy of the scoring function and for
\* every combination of stage results, is an integer in [0, 180].
C1_FortScoreInRange ==
    \A v \in Verdicts : v.agent_fort_score \in 0..180

\* C1 witness: a score was returned whose unclamped total lies outside [0, 180]
\* (here above 180), so the final clamp is what keeps it in range.
C1_Witness ==
    /\ ~IsNone(cli_verdict) /\ cli_verdict.kind = "result"
    /\ UnclampedTotal(cli_verdict) > 180 * SU
    /\ cli_verdict.agent_fort_score = 180

\* the gates as the specification lists them
gate_failed(scan, tee, perf, llm, strat) ==
    LET vulns == Get(scan, "vulnerabilities", <<>>)
        error_rate == Get(Get(perf, "performance", EmptyDict), "error_rate_percent", 0)
    IN \/ CountSeverity(vulns, "CRITICAL") > 0
       \/ ~Get(tee, "is_valid", TRUE)
       \/ error_rate > 100
       \/ (~IsNone(llm) /\ Cardinality(serious_flags(llm)) >= 2)
       \/ (~IsNone(strat) /\ strat.verification_status = "failed")

gate_warning(scan, tee, perf, llm, strat) ==
    LET vulns == Get(scan, "vulnerabilities", <<>>)
        error_rate == Get(Get(perf, "performance", EmptyDict), "error_rate_percent", 0)
    IN \/ CountSeverity(vulns, "HIGH") > 5
       \/ error_rate > 50
       \/ (~IsNone(llm) /\ Cardinality(serious_flags(llm)) >= 1)
       \/ low_confidence(llm)
       \/ (~IsNone(strat) /\ (strat.risk_score > 80 \/ strat.strategy_effectiveness < 40))

gated_status(scan, tee, perf, llm, strat) ==
    IF gate_failed(scan, tee, perf, llm, strat) THEN "FAILED"
    ELSE IF gate_warning(scan, tee, perf, llm, strat) THEN "WARNING"
    ELSE "PASSED"

\* C2: the status is FAILED if any of gates 1-5 holds, else WARNING if any of
\* gates 6-10 holds, else PASSED.
C2_StatusFollowsGates ==
    \A v \in Verdicts :
        v.overall_status =
            gated_status(scan_result, tee_result, perf_result, llm_result, strategy_result)

\* C3: a strategy verification status of "failed" gives the overall status FAILED,
\* whatever the other stage results are.
C3_FailedStrategyFails ==
    (~IsNone(strategy_result) /\ strategy_result.verification_status = "failed")
        => \A v \in Verdicts : v.overall_status = "FAILED"

StatusRank(status) ==
    CASE status = "FAILED" -> 0
      [] status = "WARNING" -> 1
      [] status = "PASSED" -> 2

NotBetter(after, before) ==
    (after.kind = "result" /\ before.kind = "result")
        => /\ after.agent_fort_score <= before.agent_fort_score
           /\ StatusRank(after.overall_status) <= StatusRank(before.overall_status)

\* C8: with the other stage results fixed, the verdict computed with the fallback
\* assessment has a Fort Score no higher and a status no better than the verdict
\* computed with the successful LLM result it replaces.
C8_FallbackNeverImproves ==
    ~IsNone(before_fallback)
        => /\ NotBetter(cli_verdict, before_fallback.cli)
           /\ NotBetter(par_verdict, before_fallback.pv)

-----------------------------------------------------------------------------
(* SpecPipe: one per-agent pipeline, stage by stage.                       *)
(* mode "batch" is ParallelVerifier._verify_single_image_dagger, mode      *)
(* "cli" is the verify command of cli.py.  A stage body is a call into the *)
(* Dagger client, the scanner, the benchmarker, the judge or the strategy  *)
(* verifier: the model lets each call succeed or raise.                    *)

Images == {"shade/finance-agent:latest", "missing/agent:latest"}

\* the registry has the image: from_(image) and the Trivy run can load it
image_found(image) == image # "missing/agent:latest"

VerificationTask(image, enable_llm) ==
    [image |-> image, enable_llm |-> enable_llm, status |-> "pending",
     result |-> NoneVal, error |-> NoneVal]

\* _run_scan_with_dagger, except branch
scan_error_result ==
    [vulnerabilities |-> <<>>, shade_agent_detected |-> FALSE,
     error |-> "scan failed"]

\* _run_tee_validation_with_dagger: the mock result, and the except branch
pv_tee_results ==
    { [is_valid |-> TRUE, trust_level |-> "HIGH"],
      [is_valid |-> TRUE, trust_level |-> "LOW"] }

pv_tee_error_result == [is_valid |-> FALSE, error |-> "tee validation error"]

\* _run_benchmark_with_dagger: _parse_k6_results, and the except branch
pv_benchmark_result == Perf(1500, 25, 5)

pv_benchmark_error_result ==
    [performance |-> [throughput_tps |-> 0, avg_latency_ms |-> 0,
                      error_rate_percent |-> 1000],
     error |-> "benchmark failed"]

PipeLLMResults ==
    {r \in SuccessfulLLMResults :
        r.confidence_level = 8000 /\ DOMAIN r.score_adjustments = {}}
    \cup {fallback_assessment}

\* the strategy verifier is asked for one named regime
PipeStrategyResults ==
    {r \in StrategyResults : DOMAIN r.performance_by_regime # {}}

verification_result(image, scan, tee, perf, llm, strat, verdict) ==
    [image |-> image,
     docker_scan |-> scan,
     tee_validation |-> tee,
     performance_benchmark |-> perf,
     llm_analysis |-> llm,
     strategy_verification |-> strat,
     agent_fort_score |-> verdict.agent_fort_score,
     overall_status |-> verdict.overall_status]

InitPipe ==
    /\ mode \in {"batch", "cli"}
    /\ pipe_pc = "start"
    /\ task \in {VerificationTask(i, e) : i \in Images, e \in BOOLEAN}
    /\ (mode = "cli" => image_found(task.image))
    /\ pipe_out = NoneVal
    /\ scan_result = NoneVal /\ tee_result = NoneVal /\ perf_result = NoneVal
    /\ llm_result = NoneVal /\ strategy_result = NoneVal
    /\ cli_verdict = NoneVal /\ par_verdict = NoneVal
    /\ before_fallback = NoneVal
    /\ BatchIdle /\ JudgeIdle /\ BacktestIdle /\ AuditIdle

\* task.status = "running", then DockerScanner(), TEEValidator(), Benchmarker();
\* an exception here reaches the except branch of the pipeline, which re-raises
pv_begin ==
    /\ mode = "batch" /\ pipe_pc = "start"
    /\ \E ok \in BOOLEAN :
         IF ok
         THEN /\ task' = [task EXCEPT !.status = "running"]
              /\ pipe_pc' = "scan"
              /\ pipe_out' = pipe_out
         ELSE /\ task' = [task EXCEPT !.status = "failed",
                                      !.error = str("component initialisation failed")]
              /\ pipe_pc' = "raised"
              /\ pipe_out' = Raised("Exception")
    /\ UNCHANGED <<mode, scan_result, tee_result, perf_result, llm_result,
                   strategy_result, cli_verdict, par_verdict, notPipe>>

\* _run_scan_with_dagger: a result, or the error result of its except branch
pv_scan ==
    /\ mode = "batch" /\ pipe_pc = "scan"
    /\ scan_result' \in IF image_found(task.image)
                        THEN ScanResults \cup {scan_error_result}
                        ELSE {scan_error_result}
    /\ pipe_pc' = "tee"
    /\ UNCHANGED <<mode, task, pipe_out, tee_result, perf_result, llm_result,
                   strategy_result, cli_verdict, par_verdict, notPipe>>

pv_tee ==
    /\ mode = "batch" /\ pipe_pc = "tee"
    /\ tee_result' \in IF image_found(task.image)
                       THEN pv_tee_results \cup {pv_tee_error_result}
                       ELSE {pv_tee_error_result}
    /\ pipe_pc' = "benchmark"
    /\ UNCHANGED <<mode, task, pipe_out, scan_result, perf_result, llm_result,
                   strategy_result, cli_verdict, par_verdict, notPipe>>

pv_benchmark ==
    /\ mode = "batch" /\ pipe_pc = "benchmark"
    /\ perf_result' \in IF image_found(task.image)
                        THEN {pv_benchmark_result, pv_benchmark_error_result}
                        ELSE {pv_benchmark_error_result}
    /\ pipe_pc' = "llm"
    /\ UNCHANGED <<mode, task, pipe_out, scan_result, tee_result, llm_result,
                   strategy_result, cli_verdict, par_verdict, notPipe>>

\* Step 4 without its exception handler: an exception of the judge reaches the
\* except branch of the pipeline
pv_llm_propagates ==
    /\ mode = "batch" /\ pipe_pc = "llm"
    /\ \E ok \in BOOLEAN :
         IF ok \/ ~task.enable_llm
         THEN /\ llm_result' \in IF task.enable_llm THEN PipeLLMResults
                                 ELSE {NoneVal}
              /\ pipe_pc' = "strategy"
              /\ UNCHANGED <<task, pipe_out>>
         ELSE /\ llm_result' = llm_result
              /\ task' = [task EXCEPT !.status = "failed",
                                      !.error = str("judge failed")]
              /\ pipe_pc' = "raised"
              /\ pipe_out' = Raised("Exception")
    /\ UNCHANGED <<mode, scan_result, tee_result, perf_result,
                   strategy_result, cli_verdict, par_verdict, notPipe>>

\* Step 4: skipped without enable_llm; an exception of the judge leaves None
pv_llm ==
    /\ mode = "batch" /\ pipe_pc = "llm"
    /\ IF task.enable_llm
       THEN llm_result' \in {NoneVal} \cup PipeLLMResults
       ELSE llm_result' = NoneVal
    /\ pipe_pc' = "strategy"
    /\ UNCHANGED <<mode, task, pipe_out, scan_result, tee_result, perf_result,
                   strategy_result, cli_verdict, par_verdict, notPipe>>

\* Step 5 without its exception handlers: a failure of the strategy verifier
\* reaches the except branch of the pipeline
pv_strategy_propagates ==
    /\ mode = "batch" /\ pipe_pc = "strategy"
    /\ \E ok \in BOOLEAN :
         IF ok
         THEN /\ strategy_result' \in PipeStrategyResults
              /\ pipe_pc' = "score"
              /\ UNCHANGED <<task, pipe_out>>
         ELSE /\ strategy_result' = strategy_result
              /\ task' = [task EXCEPT !.status = "failed",
                                      !.error = str("strategy verification failed")]
              /\ pipe_pc' = "raised"
              /\ pipe_out' = Raised("Exception")
    /\ UNCHANGED <<mode, scan_result, tee_result, perf_result,
                   llm_result, cli_verdict, par_verdict, notPipe>>

\* Step 5: _run_strategy_verification_with_dagger returns None on any exception
pv_strategy ==
    /\ mode = "batch" /\ pipe_pc = "strategy"
    /\ strategy_result' \in IF image_found(task.image)
                            THEN {NoneVal} \cup PipeStrategyResults
                            ELSE {NoneVal}
    /\ pipe_pc' = "score"
    /\ UNCHANGED <<mode, task, pipe_out, scan_result, tee_result, perf_result,
                   llm_result, cli_verdict, par_verdict, notPipe>>

\* "Calculate scores and status", "Build result", task.result, return
pv_score ==
    /\ mode = "batch" /\ pipe_pc = "score"
    /\ LET verdict ==
             Verdict(pv_calculate_agent_fort_score(scan_result, tee_result,
                         perf_result, llm_result, strategy_result),
                     pv_determine_overall_status(scan_result, tee_result,
                         perf_result, llm_result, strategy_result))
           res == verification_result(task.image, scan_result, tee_result,
                      perf_result, llm_result, strategy_result, verdict)
       IN /\ par_verdict' = verdict
          /\ task' = [task EXCEPT !.result = res]
          /\ pipe_out' = res
    /\ pipe_pc' = "returned"
    /\ UNCHANGED <<mode, scan_result, tee_result, perf_result, llm_result,
                   strategy_result, cli_verdict, notPipe>>

\* cli.py verify: DockerScanner().scan(image)
cli_scan ==
    /\ mode = "cli" /\ pipe_pc = "start"
    /\ scan_result' \in ScanResults
    /\ pipe_pc' = "tee"
    /\ UNCHANGED <<mode, task, pipe_out, tee_result, perf_result, llm_result,
                   strategy_result, cli_verdict, par_verdict, notPipe>>

\* TEEValidator().validate(image)
cli_tee ==
    /\ mode = "cli" /\ pipe_pc = "tee"
    /\ tee_result' \in {t \in TeeResults : "trust_level" \in DOMAIN t}
    /\ pipe_pc' = "benchmark"
    /\ UNCHANGED <<mode, task, pipe_out, scan_result, perf_result, llm_result,
                   strategy_result, cli_verdict, par_verdict, notPipe>>

\* Benchmarker().run(image, duration=30, ...)
cli_benchmark ==
    /\ mode = "cli" /\ pipe_pc = "benchmark"
    /\ perf_result' \in PerfResults
    /\ pipe_pc' = "llm"
    /\ UNCHANGED <<mode, task, pipe_out, scan_result, tee_result, llm_result,
                   strategy_result, cli_verdict, par_verdict, notPipe>>

\* the try/except around LLMJudge(...) and evaluate_agent: None on any exception
cli_llm ==
    /\ mode = "cli" /\ pipe_pc = "llm"
    /\ IF task.enable_llm
       THEN llm_result' \in {NoneVal} \cup PipeLLMResults
       ELSE llm_result' = NoneVal
    /\ pipe_pc' = "strategy"
    /\ UNCHANGED <<mode, task, pipe_out, scan_result, tee_result, perf_result,
                   strategy_result, cli_verdict, par_verdict, notPipe>>

\* the try/except around StrategyVerifier().verify_strategy: None on any exception
cli_strategy ==
    /\ mode = "cli" /\ pipe_pc = "strategy"
    /\ strategy_result' \in {NoneVal} \cup PipeStrategyResults
    /\ pipe_pc' = "score"
    /\ UNCHANGED <<mode, task, pipe_out, scan_result, tee_result, perf_result,
                   llm_result, cli_verdict, par_verdict, notPipe>>

\* the verification_result dict: an exception of the scoring function leaves verify
cli_score ==
    /\ mode = "cli" /\ pipe_pc = "score"
    /\ LET verdict ==
             Verdict(cli_calculate_agent_fort_score(scan_result, tee_result,
                         perf_result, llm_result, strategy_result),
                     cli_determine_overall_status(scan_result, tee_result,
                         perf_result, llm_result, strategy_result))
       IN /\ cli_verdict' = verdict
          /\ IF verdict.kind = "raise"
             THEN /\ pipe_out' = verdict
                  /\ pipe_pc' = "raised"
             ELSE /\ pipe_out' = verification_result(task.image, scan_result,
                                     tee_result, perf_result, llm_result,
                                     strategy_result, verdict)
                  /\ pipe_pc' = "returned"
    /\ UNCHANGED <<mode, task, scan_result, tee_result, perf_result, llm_result,
                   strategy_result, par_verdict, notPipe>>

\* Steps 1 to 3 await a Dagger call (.stdout() of a container) with no timeout
\* argument and outside asyncio.wait_for: the call may stay pending, and then
\* nothing in the pipeline runs again
pv_stage_pending ==
    /\ mode = "batch" /\ pipe_pc \in {"scan", "tee", "benchmark"}
    /\ pipe_pc' = "blocked"
    /\ UNCHANGED <<mode, task, pipe_out, scan_result, tee_result, perf_result,
                   llm_result, strategy_result, cli_verdict, par_verdict, notPipe>>

NextPipe ==
    \/ pv_stage_pending
    \/ pv_begin \/ pv_scan \/ pv_tee \/ pv_benchmark \/ pv_llm \/ pv_strategy
    \/ pv_score
    \/ cli_scan \/ cli_tee \/ cli_benchmark \/ cli_llm \/ cli_strategy \/ cli_score

SpecPipe == InitPipe /\ [][NextPipe]_vars

\* a stage failed: its except branch produced the stage's result
StageFailed ==
    \/ (~IsNone(scan_result) /\ "error" \in DOMAIN scan_result)
    \/ (~IsNone(tee_result) /\ "error" \in DOMAIN tee_result)
    \/ (~IsNone(perf_result) /\ "error" \in DOMAIN perf_result)
    \/ (task.enable_llm /\ pipe_pc \in {"strategy", "score", "returned"}
          /\ (IsNone(llm_result) \/ llm_result = fallback_assessment))
    \/ (pipe_pc \in {"score", "returned"} /\ IsNone(strategy_result))

-----------------------------------------------------------------------------
(* SpecBatch: ParallelVerifier.verify_batch.  One coroutine per image runs *)
(* the per-agent pipeline inside "async with semaphore"; the pipeline is   *)
(* kept to its outcome here: a verification result, or an exception.       *)

NumImages == 3
MaxConcurrent == 2

BatchImages == 1..NumImages

\* what a pipeline hands back: agent_fort_score and overall_status of a result
BatchVerdicts ==
    { [agent_fort_score |-> 148, overall_status |-> "PASSED"],
      [agent_fort_score |-> 0, overall_status |-> "FAILED"] }

\* what the stages find in an image: its verdict when no stage fails
image_findings(image) ==
    CHOOSE v \in BatchVerdicts :
        v.overall_status = IF image % 2 = 1 THEN "PASSED" ELSE "FAILED"

\* the verdict when the attestation stage gave its error result
stage_error_verdict == [agent_fort_score |-> 90, overall_status |-> "FAILED"]

\* dag.container().from_(image)
from_(image) == [kind |-> "Container", image |-> image]

\* a cache with one slot for all images
one_slot(image) == 0

\* the key of self.image_cache
cache_key(image) == image

\* scores and status of a pipeline whose stages ran on the container it got
pipeline_verdict(stage_container) ==
    IF stage_container = NoneVal
    THEN [tee_validation |-> "error"] @@ stage_error_verdict
    ELSE [tee_validation |-> "ok"] @@ image_findings(stage_container.image)

pipeline_result(image, verdict) ==
    [kind |-> "result", image |-> image,
     tee_validation |-> verdict.tee_validation,
     agent_fort_score |-> verdict.agent_fort_score,
     overall_status |-> verdict.overall_status]

\* asyncio.Semaphore: acquire() goes through without waiting when the value is positive
sem_always(value) == TRUE

\* an acquire that goes through only while a further permit stays free
sem_needs_spare(value) == value > 1

sem_can_acquire(value) == value > 0

\* asyncio.gather(..., return_exceptions=True)
gather_propagates == FALSE

gather_return_exceptions == TRUE

IsException(x) == x.kind = "raise"

BatchVerificationResult(total, successful_results, failed_count) ==
    [kind |-> "BatchVerificationResult",
     total_images |-> total,
     successful |-> Len(successful_results),
     failed |-> failed_count,
     results |-> successful_results]

\* successful_results of the "Process results" loop, over tasks 1..n
RECURSIVE successful_upto(_, _)
successful_upto(results, n) ==
    IF n = 0 THEN <<>>
    ELSE IF IsException(results[n]) \/ IsNone(results[n])
         THEN successful_upto(results, n - 1)
         ELSE Append(successful_upto(results, n - 1), results[n])

\* a count that also takes a result with status FAILED for a failed agent
failed_or_rejected_in(results) ==
    Cardinality({i \in DOMAIN results :
                    \/ IsException(results[i]) \/ IsNone(results[i])
                    \/ results[i].overall_status = "FAILED"})

\* failed_count of the "Process results" loop
failed_in(results) ==
    Cardinality({i \in DOMAIN results :
                    IsException(results[i]) \/ IsNone(results[i])})

\* task.status, task.error and task.result as the "Process results" loop sets them
processed_task(t, result) ==
    IF IsException(result)
    THEN [t EXCEPT !.status = "failed", !.error = str(result.exc)]
    ELSE IF IsNone(result)
         THEN [t EXCEPT !.status = "failed", !.error = str("Unknown error")]
         ELSE [t EXCEPT !.status = "completed", !.result = result]

\* a permit given back only when the pipeline returns
release_on_return_only(way) == IF way = "return" THEN 1 ELSE 0

\* "async with semaphore": __aexit__ calls release() however the block is left
aexit_releases(way) == 1

InitBatch ==
    /\ max_concurrent \in 1..MaxConcurrent
    /\ tasks \in { [i \in BatchImages |-> VerificationTask(images[i], TRUE)] :
                      images \in [BatchImages -> BatchImages] }
    /\ \A i \in BatchImages : tasks[i].image \in {1, i}
    /\ image_cache = <<>>
    /\ coro = [i \in BatchImages |-> "created"]
    /\ semaphore = max_concurrent
    /\ gathered = [i \in BatchImages |-> NoneVal]
    /\ batch = NoneVal
    /\ ScoreIdle /\ PipeIdle /\ JudgeIdle /\ BacktestIdle /\ AuditIdle

\* async with semaphore: __aenter__
sem_acquire(i) ==
    /\ batch = NoneVal
    /\ coro[i] = "created"
    /\ sem_can_acquire(semaphore)
    /\ semaphore' = semaphore - 1
    /\ coro' = [coro EXCEPT ![i] = "acquired"]
    /\ UNCHANGED <<max_concurrent, tasks, gathered, batch, image_cache, notBatch>>

\* a pipeline that starts without marking its task as running
pipeline_start_unmarked(i) ==
    /\ batch = NoneVal
    /\ coro[i] = "acquired"
    /\ tasks' = tasks
    /\ coro' = [coro EXCEPT ![i] = "running"]
    /\ UNCHANGED <<max_concurrent, semaphore, gathered, batch, image_cache, notBatch>>

\* _verify_single_image_dagger up to its first await: task.status = "running"
pipeline_start(i) ==
    /\ batch = NoneVal
    /\ coro[i] = "acquired"
    /\ tasks' = [tasks EXCEPT ![i].status = "running"]
    /\ coro' = [coro EXCEPT ![i] = "running"]
    /\ UNCHANGED <<max_concurrent, semaphore, gathered, batch, image_cache, notBatch>>

\* the attestation stage asks _get_cached_container for the image's container;
\* an exception on the way gives the stage's error result
pipeline_get_cached_container(i) ==
    /\ batch = NoneVal
    /\ coro[i] = "running"
    /\ \E ok \in BOOLEAN :
         IF ok
         THEN LET key == cache_key(tasks[i].image)
              IN /\ image_cache' =
                      IF key \in DOMAIN image_cache THEN image_cache
                      ELSE (key :> from_(tasks[i].image)) @@ image_cache
                 /\ coro' = [coro EXCEPT ![i] = "staged"]
         ELSE /\ image_cache' = image_cache
              /\ coro' = [coro EXCEPT ![i] = "stage_failed"]
    /\ UNCHANGED <<max_concurrent, tasks, semaphore, gathered, batch, notBatch>>

\* the pipeline returns its result; __aexit__ releases; the coroutine is done
pipeline_return(i) ==
    /\ batch = NoneVal
    /\ coro[i] \in {"staged", "stage_failed"}
    /\ LET stage_container ==
             IF coro[i] = "staged" THEN image_cache[cache_key(tasks[i].image)]
             ELSE NoneVal
           res == pipeline_result(tasks[i].image, pipeline_verdict(stage_container))
       IN /\ tasks' = [tasks EXCEPT ![i].result = res]
          /\ gathered' = [gathered EXCEPT ![i] = res]
    /\ semaphore' = semaphore + aexit_releases("return")
    /\ coro' = [coro EXCEPT ![i] = "done"]
    /\ UNCHANGED <<max_concurrent, batch, image_cache, notBatch>>

\* the except branch of the pipeline re-raises; __aexit__ releases; the
\* exception is the outcome of the coroutine
pipeline_raise(i) ==
    /\ batch = NoneVal
    /\ coro[i] \in {"running", "staged", "stage_failed"}
    /\ tasks' = [tasks EXCEPT ![i].status = "failed",
                              ![i].error = str("Exception")]
    /\ gathered' = [gathered EXCEPT ![i] = Raised("Exception")]
    /\ semaphore' = semaphore + aexit_releases("exception")
    /\ coro' = [coro EXCEPT ![i] = "done"]
    /\ UNCHANGED <<max_concurrent, batch, image_cache, notBatch>>

\* gather hands the outcomes over in task order once every coroutine is done;
\* then the "Process results" loop and the BatchVerificationResult.  Without
\* return_exceptions the first exception leaves gather and verify_batch.
gather_and_process ==
    /\ batch = NoneVal
    /\ IF gather_return_exceptions
       THEN /\ \A i \in BatchImages : coro[i] = "done"
            /\ tasks' = [i \in BatchImages |-> processed_task(tasks[i], gathered[i])]
            /\ batch' = BatchVerificationResult(NumImages,
                            successful_upto(gathered, NumImages),
                            failed_in(gathered))
       ELSE \/ /\ \E i \in BatchImages :
                     coro[i] = "done" /\ IsException(gathered[i])
               /\ batch' = Raised("Exception")
               /\ tasks' = tasks
            \/ /\ \A i \in BatchImages :
                     coro[i] = "done" /\ ~IsException(gathered[i])
               /\ tasks' = [i \in BatchImages |-> processed_task(tasks[i], gathered[i])]
               /\ batch' = BatchVerificationResult(NumImages,
                               successful_upto(gathered, NumImages),
                               failed_in(gathered))
    /\ UNCHANGED <<max_concurrent, coro, semaphore, gathered, image_cache, notBatch>>

\* verify_batch is cancelled while it awaits gather: gather cancels every
\* coroutine that is not done; CancelledError is not an Exception, so the except
\* branch of the pipeline is passed by and task.status stays as it is; __aexit__
\* releases the permit of a pipeline inside the block, a coroutine still waiting
\* in acquire() holds none; CancelledError leaves verify_batch.
cancel_batch ==
    /\ batch = NoneVal
    /\ \E i \in BatchImages : coro[i] # "done"
    /\ coro' = [i \in BatchImages |->
                  IF coro[i] = "done" THEN "done"
                  ELSE IF coro[i] = "created" THEN "cancelled_waiting"
                  ELSE "cancelled"]
    /\ semaphore' = semaphore
                      + Cardinality({i \in BatchImages :
                                        coro[i] \notin {"done", "created"}})
                        * aexit_releases("cancelled")
    /\ gathered' = [i \in BatchImages |->
                      IF coro[i] = "done" THEN gathered[i]
                      ELSE Raised("CancelledError")]
    /\ batch' = Raised("CancelledError")
    /\ UNCHANGED <<max_concurrent, tasks, image_cache, notBatch>>

\* one entry of the audit log: image reference, timestamp, result payload
AuditEntry(image, timestamp, payload) ==
    [image |-> image, timestamp |-> timestamp, verification_result |-> payload]

\* datetime.now() of a new entry: never before the last entry's timestamp
now_after(log) ==
    IF log = <<>> THEN {1}
    ELSE {log[Len(log)].timestamp, log[Len(log)].timestamp + 1}

\* AuditLogger.log_verification: the log is append-only
log_verification(log, image, timestamp, payload) ==
    Append(log, AuditEntry(image, timestamp, payload))

\* cli.py verify_batch, "Log batch results": one log_verification per element
\* of result.results
RECURSIVE log_batch_results(_, _)
log_batch_results(log, results) ==
    IF results = <<>> THEN log
    ELSE log_batch_results(
             log_verification(log, Head(results).image, Len(log) + 1, Head(results)),
             Tail(results))

\* the cli command after asyncio.run(verifier.verify_batch(...)) has returned
cli_log_batch ==
    /\ audit_pc = "idle"
    /\ batch.kind = "BatchVerificationResult"
    /\ audit_log' = log_batch_results(audit_log, batch.results)
    /\ audit_pc' = "logged"
    /\ UNCHANGED <<batchVars, audit_out, validator, scoreVars, pipeVars, judgeVars, btVars>>

NextBatch ==
    \/ cancel_batch
    \/ cli_log_batch
    \/ \E i \in BatchImages : sem_acquire(i)
    \/ \E i \in BatchImages : pipeline_start(i)
    \/ \E i \in BatchImages : pipeline_get_cached_container(i)
    \/ \E i \in BatchImages : pipeline_return(i)
    \/ \E i \in BatchImages : pipeline_raise(i)
    \/ gather_and_process

SpecBatch == InitBatch /\ [][NextBatch]_vars

\* the pipelines inside "async with semaphore"
InPipeline ==
    {i \in BatchImages : coro[i] \in {"acquired", "running", "staged", "stage_failed"}}

\* C5: with concurrency limit N = max_concurrent, never more than N per-agent
\* pipelines are inside the semaphore, and the permits handed out plus the
\* permits left always add up to N.
C5_AtMostNPipelines ==
    /\ Cardinality(InPipeline) <= max_concurrent
    /\ semaphore >= 0
    /\ semaphore + Cardinality(InPipeline) = max_concurrent

\* C5 witness: N pipelines run and a further coroutine waits for a permit.
C5_Witness ==
    /\ Cardinality({i \in BatchImages : coro[i] = "running"}) = max_concurrent
    /\ semaphore = 0
    /\ \E i \in BatchImages : coro[i] = "created"

\* C6: an exception in one pipeline leaves the siblings alone: a waiting sibling
\* can still get a permit once nothing runs, the batch ends with a batch result
\* and not with the exception, and every sibling that returned a result is
\* reported in it as completed.
C6_SiblingsUnaffected ==
    /\ ((\E i \in BatchImages : coro[i] = "created") /\ batch = NoneVal
            => (sem_can_acquire(semaphore) \/ InPipeline # {}))
    /\ ((batch # NoneVal /\ batch # Raised("CancelledError")) =>
          /\ batch.kind = "BatchVerificationResult"
          /\ \A i \in BatchImages : coro[i] = "done"
          /\ \A i \in BatchImages :
                ~IsException(gathered[i]) =>
                    /\ tasks[i].status = "completed"
                    /\ tasks[i].result = gathered[i]
                    /\ \E k \in DOMAIN batch.results : batch.results[k] = gathered[i]
          /\ batch.successful + batch.failed = batch.total_images
          /\ batch.failed = Cardinality({i \in BatchImages : IsException(gathered[i])}))

\* C6 witness: the first pipeline raised, a sibling returned after it, and the
\* batch result reports the sibling.
C6_Witness ==
    /\ batch # NoneVal /\ batch.kind = "BatchVerificationResult"
    /\ IsException(gathered[1])
    /\ \E i \in BatchImages :
          /\ ~IsException(gathered[i])
          /\ \E k \in DOMAIN batch.results : batch.results[k] = gathered[i]
    /\ batch.failed >= 1

-----------------------------------------------------------------------------
(* SpecJudge: LLMJudge.evaluate_agent.  A provider call sees its API key   *)
(* or not, the transport delivers a response text or fails, and the text   *)
(* parses or not.                                                          *)

Providers == {"anthropic", "openai"}

\* _generate_mock_anthropic_response and _generate_mock_openai_response,
\* as _parse_llm_response reads them
mock_anthropic_result ==
    LLMResult("arbitrage", 7600, 3000, <<BenignFlag>>,
              [innovative_strategy |-> 5 * FP, risk_management |-> 8 * FP,
               code_architecture |-> 6 * FP, market_impact |-> -2 * FP],
              8000, "mock anthropic assessment")

mock_openai_result ==
    LLMResult("arbitrage", 7400, 3500, <<>>,
              [innovative_strategy |-> 3 * FP, risk_management |-> 7 * FP,
               code_architecture |-> 8 * FP, market_impact |-> -1 * FP],
              7800, "mock openai assessment")

JsonText(data) == [kind |-> "json", data |-> data]

\* what a provider that answers can send
ProviderResults ==
    {r \in SuccessfulLLMResults :
        r.behavioral_flags = <<>> /\ r.risk_assessment.systemic_risk_score = 3000}

ResponseTexts ==
    {JsonText(r) : r \in ProviderResults}
    \cup {[kind |-> "not_json"], [kind |-> "missing_field"], [kind |-> "invalid_field"]}

\* the outcomes of self.client.post(...) and raise_for_status()
TransportOutcomes == ResponseTexts \cup {[kind |-> "transport_error"]}

\* _call_anthropic and _call_openai
call_provider(provider, has_key, transport) ==
    LET mock == IF provider = "anthropic"
                THEN JsonText(mock_anthropic_result)
                ELSE JsonText(mock_openai_result)
    IN IF ~has_key THEN mock
       ELSE IF transport.kind = "transport_error" THEN mock
       ELSE transport

\* _parse_llm_response: JSONDecodeError, KeyError and TypeError give the
\* fallback assessment; a validation error of the result model is not caught
parse_llm_response(response) ==
    CASE response.kind = "json" -> response.data
      [] response.kind = "not_json" -> fallback_assessment
      [] response.kind = "missing_field" -> fallback_assessment
      [] response.kind = "invalid_field" -> Raised("ValidationError")

\* _run_evaluation
run_evaluation(provider, has_key, transport) ==
    LET response == call_provider(provider, has_key, transport)
    IN IF response.kind = "raise" THEN response
       ELSE parse_llm_response(response)

\* weighted_avg with primary_weight 0.7 and secondary_weight 0.3
weighted_avg(p_val, s_val) == (7 * p_val + 3 * s_val) \div 10

\* list(set(primary + secondary)): the flags without repetition
RECURSIVE unique(_)
unique(flags) ==
    IF flags = <<>> THEN <<>>
    ELSE LET rest == unique(SubSeq(flags, 1, Len(flags) - 1))
             last == flags[Len(flags)]
         IN IF \E i \in DOMAIN rest : rest[i] = last THEN rest
            ELSE Append(rest, last)

\* _combine_evaluations
combine_evaluations(primary, secondary) ==
    [kind |-> "LLMJudgeResult",
     intent_classification |-> primary.intent_classification,
     code_quality |->
        [overall_score |-> weighted_avg(primary.code_quality.overall_score,
                                        secondary.code_quality.overall_score)],
     risk_assessment |->
        [systemic_risk_score |->
            weighted_avg(primary.risk_assessment.systemic_risk_score,
                         secondary.risk_assessment.systemic_risk_score)],
     behavioral_flags |->
        unique(primary.behavioral_flags \o secondary.behavioral_flags),
     score_adjustments |->
        [k \in DOMAIN primary.score_adjustments
               \cup DOMAIN secondary.score_adjustments |->
            weighted_avg(Get(primary.score_adjustments, k, 0),
                         Get(secondary.score_adjustments, k, 0))],
     confidence_level |-> weighted_avg(primary.confidence_level,
                                       secondary.confidence_level),
     reasoning |-> <<"Ensemble evaluation:", "Primary:">> \o primary.reasoning
                   \o <<"Secondary:">> \o secondary.reasoning]

Call(provider, has_key, transport, outcome) ==
    [provider |-> provider, has_key |-> has_key,
     transport |-> IF has_key THEN transport.kind ELSE "not_called",
     outcome |-> outcome]

InitJudge ==
    /\ judge \in { [primary_provider |-> p,
                    fallback_provider |-> f,
                    enable_ensemble |-> e,
                    api_keys |-> k,
                    calls |-> <<>>] :
                     p \in Providers, f \in Providers \cup {"None"},
                     e \in BOOLEAN, k \in SUBSET Providers }
    /\ judge_pc = "start"
    /\ primary_result = NoneVal
    /\ judge_out = NoneVal
    /\ ScoreIdle /\ PipeIdle /\ BatchIdle /\ BacktestIdle /\ AuditIdle

\* evaluate_agent without its except branch: an exception of the primary
\* evaluation leaves evaluate_agent
run_primary_propagates ==
    /\ judge_pc = "start"
    /\ \E transport \in TransportOutcomes :
         LET has_key == judge.primary_provider \in judge.api_keys
             res == run_evaluation(judge.primary_provider, has_key, transport)
         IN /\ judge' = [judge EXCEPT !.calls =
                           Append(@, Call(judge.primary_provider, has_key,
                                          transport, res))]
            /\ IF res.kind = "raise"
               THEN /\ primary_result' = primary_result
                    /\ judge_out' = res
                    /\ judge_pc' = "raised"
               ELSE /\ primary_result' = res
                    /\ IF judge.enable_ensemble /\ judge.fallback_provider # "None"
                       THEN judge_out' = judge_out /\ judge_pc' = "ensemble"
                       ELSE judge_out' = res /\ judge_pc' = "returned"
    /\ UNCHANGED notJudge

\* primary_result = self._run_evaluation(context, self.primary_provider);
\* an exception goes to the except branch of evaluate_agent
run_primary ==
    /\ judge_pc = "start"
    /\ \E transport \in TransportOutcomes :
         LET has_key == judge.primary_provider \in judge.api_keys
             res == run_evaluation(judge.primary_provider, has_key, transport)
         IN /\ judge' = [judge EXCEPT !.calls =
                           Append(@, Call(judge.primary_provider, has_key,
                                          transport, res))]
            /\ IF res.kind = "raise"
               THEN /\ primary_result' = primary_result
                    /\ judge_out' = fallback_assessment
                    /\ judge_pc' = "returned"
               ELSE /\ primary_result' = res
                    /\ IF judge.enable_ensemble /\ judge.fallback_provider # "None"
                       THEN judge_out' = judge_out /\ judge_pc' = "ensemble"
                       ELSE judge_out' = res /\ judge_pc' = "returned"
    /\ UNCHANGED notJudge

\* an ensemble whose except branch gives the fallback assessment
run_ensemble_falls_back ==
    /\ judge_pc = "ensemble"
    /\ \E transport \in TransportOutcomes :
         LET has_key == judge.fallback_provider \in judge.api_keys
             res == run_evaluation(judge.fallback_provider, has_key, transport)
         IN /\ judge' = [judge EXCEPT !.calls =
                           Append(@, Call(judge.fallback_provider, has_key,
                                          transport, res))]
            /\ judge_out' = IF res.kind = "raise" THEN fallback_assessment
                            ELSE combine_evaluations(primary_result, res)
    /\ judge_pc' = "returned"
    /\ UNCHANGED <<primary_result, notJudge>>

\* _run_ensemble_evaluation: the secondary evaluation and the combination, or
\* the primary result when the secondary evaluation raises
run_ensemble ==
    /\ judge_pc = "ensemble"
    /\ \E transport \in TransportOutcomes :
         LET has_key == judge.fallback_provider \in judge.api_keys
             res == run_evaluation(judge.fallback_provider, has_key, transport)
         IN /\ judge' = [judge EXCEPT !.calls =
                           Append(@, Call(judge.fallback_provider, has_key,
                                          transport, res))]
            /\ judge_out' = IF res.kind = "raise" THEN primary_result
                            ELSE combine_evaluations(primary_result, res)
    /\ judge_pc' = "returned"
    /\ UNCHANGED <<primary_result, notJudge>>

NextJudge == run_primary \/ run_ensemble

SpecJudge == InitJudge /\ [][NextJudge]_vars

\* every other input green
green_scan == [vulnerabilities |-> <<>>, shade_agent_detected |-> TRUE]
green_tee == [is_valid |-> TRUE, trust_level |-> "HIGH"]
green_perf == Perf(2500, 10, 0)

\* the verdict of the orchestrator on the judge's result, the rest green
green_verdict(llm) ==
    cli_determine_overall_status(green_scan, green_tee, green_perf, llm, NoneVal)

\* a provider call found the provider unavailable
Unavailable(call) ==
    \/ ~call.has_key
    \/ call.transport \in {"transport_error", "not_json", "missing_field",
                           "invalid_field"}

\* C9: when the only provider call of an evaluation finds the provider
\* unavailable (no API key, a failed transport call, or a response that does not
\* parse), evaluate_agent returns the conservative fallback result with
\* confidence 0.1, and with every other input green the verdict is WARNING.
C9_UnavailableGivesFallback ==
    (/\ judge_pc = "returned"
     /\ Len(judge.calls) = 1
     /\ Unavailable(judge.calls[1]))
        => /\ judge_out = fallback_assessment
           /\ judge_out.confidence_level = 1000
           /\ green_verdict(judge_out) = "WARNING"

-----------------------------------------------------------------------------
(* SpecBacktest: ContainerBacktester.run.  The Docker daemon, the market   *)
(* data manager and the agent decide how each call ends.                   *)

MaxWaitTicks == 2
MaxLogLines == 2

initial_capital == 100000

AgentImages == {"arbitrage-agent:latest", "momentum-agent:latest"}

\* a float of a parsed log line
Float(x) == [kind |-> "float", value |-> x]

Trade(pnl) == [pnl |-> pnl]

\* the actions of a trade log line
TradeActions ==
    {"arbitrage_buy", "arbitrage_sell", "momentum_entry", "momentum_exit",
     "market_making_fill"}

\* a stdout line that json.loads turns into a dict: its action, whether
\* timestamp, symbol, side, price and amount are there and usable, and its pnl
JsonObject(action, fields_ok, pnl) ==
    [kind |-> "object", action |-> action, fields_ok |-> fields_ok, pnl |-> pnl]

\* the lines an agent can write: an empty line, text that is no JSON, JSON that
\* is no object, objects that are no trade, trades, and a trade line that lacks
\* a field of Trade
LogLines ==
    { [kind |-> "blank"], [kind |-> "text"], [kind |-> "json_value"],
      JsonObject("heartbeat", TRUE, NoneVal),
      JsonObject("arbitrage_buy", TRUE, Float(120)),
      JsonObject("arbitrage_sell", TRUE, Float(-45)),
      JsonObject("momentum_entry", TRUE, NoneVal),
      JsonObject("momentum_exit", TRUE, Float(0)),
      JsonObject("market_making_fill", FALSE, Float(30)) }

RECURSIVE SeqsUpTo(_, _)
SeqsUpTo(S, n) ==
    IF n = 0 THEN {<<>>}
    ELSE LET shorter == SeqsUpTo(S, n - 1)
         IN shorter \cup {Append(q, x) : q \in shorter, x \in S}

\* container.logs().decode('utf-8').split('\n')
AgentLogs == SeqsUpTo(LogLines, MaxLogLines)

\* a line that becomes a trade whatever its action is
any_json_object(line) == line.kind = "object" /\ line.fields_ok

\* the body of the loop of _parse_agent_logs: json.loads succeeds, the action is
\* a trade action, and Trade(...) is built without an exception
counts_as_trade(line) ==
    /\ line.kind = "object"
    /\ line.action \in TradeActions
    /\ line.fields_ok

\* _parse_agent_logs
RECURSIVE parse_agent_logs(_)
parse_agent_logs(logs) ==
    IF logs = <<>> THEN <<>>
    ELSE LET line == Head(logs)
             rest == parse_agent_logs(Tail(logs))
         IN IF counts_as_trade(line) THEN <<Trade(line.pnl)>> \o rest ELSE rest

\* a test that lets only gains through
pnl_positive(pnl) == pnl.kind = "float" /\ pnl.value > 0

\* "if trade.pnl": None and 0 are falsy
pnl_truthy(pnl) == pnl.kind = "float" /\ pnl.value # 0

\* final_capital = initial_capital; for trade in trades: if trade.pnl: += trade.pnl
RECURSIVE final_capital_of(_)
final_capital_of(trades) ==
    IF trades = <<>> THEN initial_capital
    ELSE LET last == trades[Len(trades)]
             before == final_capital_of(SubSeq(trades, 1, Len(trades) - 1))
         IN IF pnl_truthy(last.pnl) THEN before + last.pnl.value ELSE before

\* sum(t.pnl for t in trades if t.pnl and <test on t.pnl>), by the sign kept
RECURSIVE pnl_sum(_, _)
pnl_sum(trades, sign) ==
    IF trades = <<>> THEN 0
    ELSE LET pnl == Head(trades).pnl
             rest == pnl_sum(Tail(trades), sign)
         IN IF pnl.kind = "float" /\ pnl.value # 0 /\ pnl.value * sign > 0
            THEN pnl.value + rest ELSE rest

\* _calculate_metrics: the trade count and the PnL sums; total_loss is abs(...),
\* and a profit factor of infinity is reported as 999.0
calculate_metrics(trades) ==
    LET total_profit == pnl_sum(trades, 1)
        total_loss == -pnl_sum(trades, -1)
    IN [total_trades |-> Len(trades),
        winning_trades |-> Cardinality({i \in DOMAIN trades :
                               trades[i].pnl.kind = "float" /\ trades[i].pnl.value > 0}),
        total_profit |-> total_profit,
        total_loss |-> total_loss,
        profit_factor |-> IF total_loss > 0
                          THEN [kind |-> "ratio", num |-> total_profit, den |-> total_loss]
                          ELSE [kind |-> "float", value |-> 999]]

BacktestResult(agent_image, trades) ==
    [kind |-> "BacktestResult",
     agent_id |-> agent_image,
     initial_capital |-> initial_capital,
     final_capital |-> final_capital_of(trades),
     metrics |-> calculate_metrics(trades),
     trades |-> trades]

\* the container handle of docker_client.containers.run(..., detach=True)
Container(status) ==
    [status |-> status, exit_code |-> 0, remove_calls |-> 0, force |-> FALSE,
     daemon_error |-> FALSE]

\* a cleanup that is reached on the normal return only
cleanup_on_return_only(pending) == pending.kind # "raise"

\* the finally clause is reached on the return and on every exception
cleanup_reached(pending) == TRUE

\* the environment dict of run, as far as the wait loop reads it
environment == [BACKTEST_MODE |-> "true"]

\* timeout_seconds: 300 s, ten times the 30 s of backtest mode, in loop turns
timeout_seconds == 10 * MaxWaitTicks

\* max_wait = 30 if environment.get("BACKTEST_MODE") == "true" else timeout_seconds,
\* in loop turns: MaxWaitTicks turns stand for the 30 s
max_wait ==
    IF Get(environment, "BACKTEST_MODE", NoneVal) = "true" THEN MaxWaitTicks
    ELSE timeout_seconds

\* a wait loop that goes on for as long as the container runs
while_running(elapsed) == TRUE

\* while time.time() - start_time < max_wait
while_condition(elapsed) == elapsed < max_wait

InitBacktest ==
    /\ bt_pc = "start"
    /\ container = NoneVal
    /\ bt \in { [agent_image |-> a, elapsed |-> 0, final_logs |-> <<>>,
                 trades |-> <<>>, pending |-> NoneVal] : a \in AgentImages }
    /\ bt_out = NoneVal
    /\ ScoreIdle /\ PipeIdle /\ BatchIdle /\ JudgeIdle /\ AuditIdle

\* container = self.docker_client.containers.run(...); an exception leaves
\* container None and goes through except and finally
bt_run_container ==
    /\ bt_pc = "start"
    /\ \E ok \in BOOLEAN :
         IF ok
         THEN /\ container' = Container("running")
              /\ bt_pc' = "waiting"
              /\ bt' = bt
         ELSE /\ container' = container
              /\ bt_pc' = "finally"
              /\ bt' = [bt EXCEPT !.pending = Raised("ImageNotFound")]
    /\ UNCHANGED <<bt_out, notBacktest>>

\* one turn of the wait loop: container.reload(), the status test, time.sleep
bt_wait ==
    /\ bt_pc = "waiting"
    /\ while_condition(bt.elapsed)
    /\ \E reload \in {"running", "exited", "error"} :
         CASE reload = "running" ->
                /\ bt' = [bt EXCEPT !.elapsed =
                                       IF @ > max_wait THEN @ ELSE @ + 1]
                /\ UNCHANGED <<bt_pc, container>>
           [] reload = "exited" ->
                /\ \E code \in {0, 1} :
                      container' = [container EXCEPT !.status = "exited",
                                                     !.exit_code = code]
                /\ bt_pc' = "collect"
                /\ bt' = bt
           [] reload = "error" ->
                /\ bt' = [bt EXCEPT !.pending = Raised("APIError")]
                /\ bt_pc' = "finally"
                /\ container' = container
    /\ UNCHANGED <<bt_out, notBacktest>>

\* the loop condition time.time() - start_time < max_wait fails
bt_timeout ==
    /\ bt_pc = "waiting"
    /\ ~while_condition(bt.elapsed)
    /\ bt_pc' = "collect"
    /\ UNCHANGED <<container, bt, bt_out, notBacktest>>

\* the logs are read from the container as the wait loop left it
bt_no_stop ==
    /\ bt_pc = "collect"
    /\ bt_pc' = "logs"
    /\ UNCHANGED <<container, bt, bt_out, notBacktest>>

\* if container.status == "running": container.stop(timeout=10)
bt_stop ==
    /\ bt_pc = "collect"
    /\ IF container.status = "running"
       THEN \E ok \in BOOLEAN :
              IF ok
              THEN /\ container' = [container EXCEPT !.status = "exited"]
                   /\ bt_pc' = "logs"
                   /\ bt' = bt
              ELSE /\ container' = container
                   /\ bt_pc' = "finally"
                   /\ bt' = [bt EXCEPT !.pending = Raised("APIError")]
       ELSE /\ bt_pc' = "logs"
            /\ UNCHANGED <<container, bt>>
    /\ UNCHANGED <<bt_out, notBacktest>>

\* final_logs = container.logs().decode('utf-8'); trades = _parse_agent_logs
bt_logs ==
    /\ bt_pc = "logs"
    /\ \/ \E final_logs \in AgentLogs :
            /\ bt' = [bt EXCEPT !.final_logs = final_logs,
                                !.trades = parse_agent_logs(final_logs)]
            /\ bt_pc' = "metrics"
       \/ /\ bt' = [bt EXCEPT !.pending = Raised("UnicodeDecodeError")]
          /\ bt_pc' = "finally"
    /\ UNCHANGED <<container, bt_out, notBacktest>>

\* final capital, fetch_market_data, _calculate_metrics, return BacktestResult
bt_metrics ==
    /\ bt_pc = "metrics"
    /\ \E ok \in BOOLEAN :
         bt' = [bt EXCEPT !.pending =
                   IF ok THEN BacktestResult(bt.agent_image, bt.trades)
                   ELSE Raised("KeyError")]
    /\ bt_pc' = "finally"
    /\ UNCHANGED <<container, bt_out, notBacktest>>

\* finally: if container: try container.remove(force=True) except: pass;
\* then the return value or the re-raised exception leaves run
bt_finally ==
    /\ bt_pc = "finally"
    /\ IF container # NoneVal /\ cleanup_reached(bt.pending)
       THEN \E removed \in BOOLEAN :
              container' = [container EXCEPT
                              !.remove_calls = @ + 1,
                              !.force = TRUE,
                              !.daemon_error = ~removed,
                              !.status = IF removed THEN "removed" ELSE @]
       ELSE container' = container
    /\ bt_out' = bt.pending
    /\ bt_pc' = IF bt.pending.kind = "raise" THEN "raised" ELSE "returned"
    /\ UNCHANGED <<bt, notBacktest>>

NextBacktest ==
    \/ bt_run_container \/ bt_wait \/ bt_timeout \/ bt_stop
    \/ bt_logs \/ bt_metrics \/ bt_finally

SpecBacktest == InitBacktest /\ [][NextBacktest]_vars

\* C10: once run has started a container, every way out of run (the return, and
\* an exception of the wait loop, of stop, of the log collection or of the
\* metrics) has issued exactly one container.remove(force=True), and the
\* container is gone unless the daemon answered that call with an error; the
\* container is not removed before run is on its way out.
C10_ContainerForceRemoved ==
    /\ (bt_pc \in {"returned", "raised"} /\ container # NoneVal =>
          /\ container.remove_calls = 1
          /\ container.force
          /\ (container.status = "removed" \/ container.daemon_error))
    /\ (container # NoneVal /\ bt_pc \notin {"returned", "raised"} =>
          container.remove_calls = 0 /\ container.status # "removed")

\* C10 witness: the wait loop timed out, the container was stopped, run left with
\* an exception, and the container is removed.
C10_Witness ==
    /\ bt_pc = "raised"
    /\ bt.elapsed >= MaxWaitTicks
    /\ container # NoneVal
    /\ container.status = "removed"
    /\ container.remove_calls = 1

\* C11: a run whose agent output yields no trade does not return a backtest
\* result: it fails with AgentProducedNoTrades.
C11_NoTradesFails ==
    /\ (bt_pc = "returned" => bt_out.metrics.total_trades > 0)
    /\ (bt_pc \in {"returned", "raised"} /\ bt.pending # NoneVal
          /\ bt.pending.kind = "BacktestResult" /\ bt.trades = <<>>
            => bt_out = Raised("AgentProducedNoTrades"))

\* the trades that carry a pnl
WithPnl(trades) == {i \in DOMAIN trades : trades[i].pnl # NoneVal}

\* the sum of pnl over the trades that carry one
PnlTotal(trades) ==
    SumOver([i \in WithPnl(trades) |-> trades[i].pnl.value], WithPnl(trades))

\* C12: a returned backtest result has final_capital equal to initial_capital plus
\* the sum of pnl over the parsed trades that carry a pnl; a trade without pnl is
\* counted in the trade count and changes neither final_capital nor the profit
\* and loss sums of the metrics.
C12_FinalCapitalIsSumOfPnl ==
    bt_pc = "returned" =>
        /\ bt_out.final_capital = initial_capital + PnlTotal(bt.trades)
        /\ bt_out.metrics.total_trades = Len(bt.trades)
        /\ bt_out.metrics.total_profit - bt_out.metrics.total_loss = PnlTotal(bt.trades)
        /\ bt_out.metrics.total_profit >= 0 /\ bt_out.metrics.total_loss >= 0

\* C12 witness: a result was returned for two trades, one without pnl and one with
\* a loss.
C12_Witness ==
    /\ bt_pc = "returned"
    /\ Len(bt.trades) = 2
    /\ \E i \in DOMAIN bt.trades : bt.trades[i].pnl = NoneVal
    /\ \E i \in DOMAIN bt.trades :
          bt.trades[i].pnl # NoneVal /\ bt.trades[i].pnl.value < 0
    /\ bt_out.final_capital < initial_capital
    /\ bt_out.metrics.total_trades = 2

\* a line that is a JSON object with a trade action
HasTradeAction(line) == line.kind = "object" /\ line.action \in TradeActions

\* a line that is a JSON object with a trade action and the fields of a trade
IsCompleteTradeLine(line) == HasTradeAction(line) /\ line.fields_ok

\* C13 as stated: the parsed trades are exactly the lines that are JSON objects
\* with a trade action, and the reported trade count is the number of such lines.
C13_TradeIffAction ==
    bt_pc \in {"metrics", "finally", "returned"} /\ bt.pending.kind # "raise" =>
        Len(bt.trades) = Len(SelectSeq(bt.final_logs, HasTradeAction))

\* C13 amended: a line is counted as a trade iff it is a JSON object whose action
\* is a trade action and whose timestamp, symbol, side, price and amount can be
\* read; the trades are these lines in their order, every other line is ignored,
\* and the reported trade count is the number of such lines.
C13_TradeIffCompleteTradeLine ==
    /\ (bt_pc \in {"metrics", "finally", "returned"} /\ bt.pending.kind # "raise" =>
          LET lines == SelectSeq(bt.final_logs, IsCompleteTradeLine)
          IN /\ Len(bt.trades) = Len(lines)
             /\ \A i \in DOMAIN lines : bt.trades[i] = Trade(lines[i].pnl))
    /\ (bt_pc = "returned" =>
          bt_out.metrics.total_trades =
              Len(SelectSeq(bt.final_logs, IsCompleteTradeLine)))

\* C13 witness: a result was returned for a log with a trade line and a line that
\* is a JSON object without a trade action, and one trade is reported.
C13_Witness ==
    /\ bt_pc = "returned"
    /\ Len(bt.final_logs) = 2
    /\ \E i \in DOMAIN bt.final_logs : bt.final_logs[i].kind = "object"
                                        /\ bt.final_logs[i].action = "heartbeat"
    /\ \E i \in DOMAIN bt.final_logs : IsCompleteTradeLine(bt.final_logs[i])
    /\ bt_out.metrics.total_trades = 1

\* C14: every attestation result a pipeline holds with is_valid false has the
\* trust level UNTRUSTED, the result of the stage's error path included.
C14_InvalidIsUntrusted ==
    (~IsNone(tee_result) /\ ~tee_result.is_valid)
        => /\ "trust_level" \in DOMAIN tee_result
           /\ tee_result.trust_level = "UNTRUSTED"

\* C15: an attestation result with trust level UNTRUSTED gives the overall status
\* FAILED in both copies of the status function, whatever the scan, the benchmark,
\* the LLM result, the strategy result and the Fort Score are.
C15_UntrustedFails ==
    (/\ ~IsNone(tee_result)
     /\ Get(tee_result, "trust_level", "") = "UNTRUSTED")
        => \A v \in Verdicts : v.overall_status = "FAILED"

\* C15 witness: both copies gave FAILED for an UNTRUSTED attestation although the
\* scan is clean, the benchmark is good, the strategy is verified and the score is
\* above the base of 100.
C15_Witness ==
    /\ ~IsNone(tee_result) /\ Get(tee_result, "trust_level", "") = "UNTRUSTED"
    /\ scan_result.vulnerabilities = <<>>
    /\ perf_result = Perf(2500, 10, 0)
    /\ ~IsNone(strategy_result) /\ strategy_result.verification_status = "verified"
    /\ ~IsNone(cli_verdict) /\ cli_verdict.kind = "result"
    /\ ~IsNone(par_verdict) /\ par_verdict.kind = "result"
    /\ cli_verdict.overall_status = "FAILED" /\ par_verdict.overall_status = "FAILED"
    /\ cli_verdict.agent_fort_score > 100

\* the verdict of an agent verified alone: what the stages find in its own image,
\* or the verdict of its own failed attestation stage
SoloVerdict(image, res) ==
    IF res.tee_validation = "error" THEN stage_error_verdict
    ELSE image_findings(image)

\* C16: the Fort Score and the status an agent gets in a batch are those of its
\* own image, whichever other images are in the batch, whatever their verdicts
\* are and however the pipelines interleave around the shared image cache.
C16_BatchIsolation ==
    /\ \A i \in BatchImages :
          (gathered[i] # NoneVal /\ ~IsException(gathered[i])) =>
              /\ gathered[i].image = tasks[i].image
              /\ gathered[i].agent_fort_score =
                    SoloVerdict(tasks[i].image, gathered[i]).agent_fort_score
              /\ gathered[i].overall_status =
                    SoloVerdict(tasks[i].image, gathered[i]).overall_status
    /\ \A key \in DOMAIN image_cache : image_cache[key].image = key

\* C16 witness: the second agent got the verdict of its own image while the first
\* agent, with another image and another verdict to come, holds its container in
\* the same cache.
C16_Witness ==
    /\ tasks[1].image # tasks[2].image
    /\ coro[1] = "staged"
    /\ gathered[2] # NoneVal /\ ~IsException(gathered[2])
    /\ gathered[2].tee_validation = "ok"
    /\ gathered[2].overall_status = "FAILED"
    /\ image_findings(tasks[1].image).overall_status = "PASSED"
    /\ DOMAIN image_cache = {tasks[1].image, tasks[2].image}

\* C17: for the same stage results the scoring and status functions of
\* parallel_verifier.py give the Fort Score and the status that those of cli.py
\* give.
C17_BatchEqualsSolo ==
    (~IsNone(cli_verdict) /\ ~IsNone(par_verdict) /\ IsNone(before_fallback)) =>
        /\ cli_verdict.kind = par_verdict.kind
        /\ cli_verdict.kind = "result" =>
              /\ cli_verdict.agent_fort_score = par_verdict.agent_fort_score
              /\ cli_verdict.overall_status = par_verdict.overall_status

\* C18: a batch pipeline that has ended ended without a Fort Score (it raised)
\* exactly when its image cannot be found.
C18_NoScoreIffImageNotFound ==
    (mode = "batch" /\ pipe_pc \in {"raised", "returned"})
        => (pipe_pc = "raised" <=> ~image_found(task.image))

\* the outcome of pipeline i carries a Fort Score
HasFortScore(outcome) == "agent_fort_score" \in DOMAIN outcome

Scored == {i \in BatchImages : HasFortScore(gathered[i])}

\* C19: in the batch result the failed agents are exactly those whose pipeline
\* gave no Fort Score; every agent with a Fort Score is completed, is counted in
\* successful and has its result in the results list exactly once, whatever its
\* status.
C19_FailedOnlyWithoutScore ==
    (batch # NoneVal /\ batch.kind = "BatchVerificationResult") =>
        /\ \A i \in BatchImages :
              /\ tasks[i].status = "failed" <=> i \notin Scored
              /\ tasks[i].status = "completed" <=> i \in Scored
              /\ i \notin Scored => IsException(gathered[i])
        /\ batch.failed = Cardinality(BatchImages \ Scored)
        /\ batch.successful = Cardinality(Scored)
        /\ Len(batch.results) = Cardinality(Scored)
        /\ \A i \in Scored :
              Cardinality({k \in DOMAIN batch.results :
                              batch.results[k] = gathered[i]})
                = Cardinality({j \in Scored : gathered[j] = gathered[i]})

\* C19 witness: one pipeline raised and is the only failed agent, while an agent
\* whose result has status FAILED is counted as successful and is in the results.
C19_Witness ==
    /\ batch # NoneVal /\ batch.kind = "BatchVerificationResult"
    /\ batch.failed = 1 /\ batch.successful = NumImages - 1
    /\ \E i \in BatchImages : IsException(gathered[i])
    /\ \E k \in DOMAIN batch.results : batch.results[k].overall_status = "FAILED"

\* the ways the pipelines that are over have left "async with semaphore"
WaysLeft ==
    {IF coro[i] = "cancelled" THEN "cancelled"
     ELSE IF IsException(gathered[i]) THEN "exception" ELSE "return" :
        i \in {j \in BatchImages : coro[j] \in {"done", "cancelled"}}}

\* C20: whenever no pipeline is inside "async with semaphore", the semaphore has
\* all max_concurrent permits again, whether the pipelines that are over left by
\* return, by exception or by cancellation; and it never has more.
C20_PermitsGivenBack ==
    /\ semaphore <= max_concurrent
    /\ InPipeline = {} => semaphore = max_concurrent

\* C20 witness: one pipeline returned, one raised and one was cancelled while it
\* ran; nothing runs and every permit is back.
C20_Witness ==
    /\ WaysLeft = {"return", "exception", "cancelled"}
    /\ InPipeline = {}
    /\ batch = Raised("CancelledError")
    /\ semaphore = max_concurrent

-----------------------------------------------------------------------------
(* SpecBatchLive: verify_batch under the scheduling of the event loop.  A   *)
(* coroutine that can run is run: a waiter is woken when a permit is free,  *)
(* a pipeline that was started goes on to its next await and ends by       *)
(* returning or raising, and gather returns once every coroutine is done.   *)
(* Cancellation comes from outside and is not owed to anyone.              *)

FairBatch ==
    /\ \A i \in BatchImages :
          /\ WF_vars(sem_acquire(i))
          /\ WF_vars(pipeline_start(i))
          /\ WF_vars(pipeline_get_cached_container(i))
          /\ WF_vars(pipeline_return(i) \/ pipeline_raise(i))
    /\ WF_vars(gather_and_process)

\* a batch of distinct images: which images share a container does not bear on
\* the scheduling
InitBatchLive == InitBatch /\ \A i \in BatchImages : tasks[i].image = i

SpecBatchLive == InitBatchLive /\ [][NextBatch]_vars /\ FairBatch

Cancelled == batch = Raised("CancelledError")

\* C21: unless the batch is cancelled, every image of the batch is eventually
\* started (its task is set running inside the semaphore), its coroutine is
\* eventually done, and its task eventually has a final status in a batch result.
C21_EveryImageStartsAndEnds ==
    \A i \in BatchImages :
        /\ <>(tasks[i].status = "running" \/ Cancelled)
        /\ <>(coro[i] = "done" \/ Cancelled)
        /\ <>((/\ batch.kind = "BatchVerificationResult"
               /\ tasks[i].status \in {"completed", "failed"}) \/ Cancelled)

\* C21 witness: with one permit, the first pipeline is over and a coroutine that
\* had to wait for its permit runs.
C21_Witness ==
    /\ max_concurrent = 1
    /\ \E i, j \in BatchImages :
          /\ coro[i] = "done"
          /\ coro[j] = "running" /\ tasks[j].status = "running"
    /\ semaphore = 0

\* C22: a batch pipeline whose stage does not complete is not stuck: the stage's
\* deadline ends it, so the pipeline has a next step (the one that surfaces
\* DeadlineExceeded as the stage's result).
C22_StageDeadline ==
    (mode = "batch" /\ pipe_pc = "blocked") => ENABLED NextPipe

-----------------------------------------------------------------------------
(* SpecBacktestLive: run is sequential code; every call it makes returns   *)
(* or raises, so run takes its next step whenever it has one.              *)

SpecBacktestLive == InitBacktest /\ [][NextBacktest]_vars /\ WF_vars(NextBacktest)

\* C23: the wait loop ends after at most the turns of the 30 s of backtest mode;
\* a container that still runs then is stopped before its logs are read; and run
\* always comes to its end, by return or by exception, also when the agent never
\* exits by itself.
C23_HardTimeout ==
    /\ [](bt_pc # "idle" => bt.elapsed <= MaxWaitTicks)
    /\ [](bt_pc \in {"logs", "metrics"} => container.status = "exited")
    /\ <>(bt_pc \in {"returned", "raised"})

\* C23 witness: the agent ran through every turn of the wait loop, the harness
\* stopped it, and run returned a result.
C23_Witness ==
    /\ bt_pc = "returned"
    /\ bt.elapsed = MaxWaitTicks
    /\ bt_out.kind = "BacktestResult"

\* the container was stopped at the timeout, or exited with a non-zero code
TimedOutOrFailedExit ==
    container # NoneVal /\ (bt.elapsed >= max_wait \/ container.exit_code # 0)

\* C24: a run whose container hit the timeout or exited with a non-zero code,
\* with at least one trade parsed, returns a result, and the result carries a
\* warning.
C24_PartialResultWithWarning ==
    (bt_pc = "returned" /\ TimedOutOrFailedExit /\ bt.trades # <<>>) =>
        /\ bt_out.kind = "BacktestResult"
        /\ "warning" \in DOMAIN bt_out

\* the trade lines of the logs, in the order of stdout
TradeLines == SelectSeq(bt.final_logs, IsCompleteTradeLine)

\* C25: the step that reads and parses the logs and the step that computes the
\* metrics are taken only when the container has terminated (it exited, or the
\* harness stopped it), and the parsed trades are the trade lines of the logs in
\* stdout order.
C25_ParseAfterTermination ==
    /\ [][(bt'.final_logs # bt.final_logs \/ bt'.trades # bt.trades
             \/ (bt'.pending # bt.pending /\ bt'.pending.kind = "BacktestResult"))
            => (container.status = "exited" /\ container'.status = "exited")]_vars
    /\ [](bt_pc \in {"metrics", "finally", "returned"} /\ bt.pending.kind # "raise"
            => /\ Len(bt.trades) = Len(TradeLines)
               /\ \A k \in DOMAIN bt.trades : bt.trades[k].pnl = TradeLines[k].pnl)

\* C25 witness: the agent wrote a gain and then a loss and never exited; the
\* harness stopped it, and the result lists the gain before the loss.
C25_Witness ==
    /\ bt_pc = "returned"
    /\ bt.elapsed = MaxWaitTicks
    /\ Len(bt_out.trades) = 2
    /\ bt_out.trades[1].pnl = Float(120)
    /\ bt_out.trades[2].pnl = Float(-45)

\* the judge was asked for and gave nothing: it raised, and None was kept
JudgeFailed ==
    /\ task.enable_llm /\ IsNone(llm_result)
    /\ pipe_pc \in {"strategy", "score", "returned"}

HighSystemicRisk ==
    /\ ~IsNone(llm_result) /\ "risk_assessment" \in DOMAIN llm_result
    /\ llm_result.risk_assessment.systemic_risk_score > (9 * FP) \div 10

\* the same LLM result with no systemic risk: what the other terms add up to
WithoutSystemicRisk(llm) ==
    [llm EXCEPT !.risk_assessment = [systemic_risk_score |-> 0]]

\* C27: with a systemic risk above 0.9, the LLM adjustment of each copy of the
\* scoring function is its other terms minus 30 points, clamped to [-30, +30].
C27_SystemicRiskPenalty ==
    HighSystemicRisk =>
        /\ (~IsNone(cli_verdict) /\ cli_verdict.kind = "result") =>
              cli_verdict.locals.llm_adjustment =
                  Clamp(-30 * SU, 30 * SU,
                        cli_llm_raw(WithoutSystemicRisk(llm_result)) - 30 * SU)
        /\ ~IsNone(par_verdict) =>
              par_verdict.locals.llm_adjustment =
                  Clamp(-30 * SU, 30 * SU,
                        pv_llm_raw(WithoutSystemicRisk(llm_result)) - 30 * SU)

\* an evaluation failed: _run_evaluation raised, or the response did not parse
\* and _parse_llm_response gave the fallback assessment
EvaluationFailed(call) ==
    call.outcome.kind = "raise" \/ call.outcome = fallback_assessment

\* the conservative result: strategy unknown, confidence 0.1, and a reasoning
\* that has the sentence of the fallback assessment
IsConservative(result) ==
    /\ result.kind = "LLMJudgeResult"
    /\ result.intent_classification.primary_strategy = "unknown"
    /\ result.confidence_level = FP \div 10
    /\ \E i \in DOMAIN result.reasoning :
          result.reasoning[i] = fallback_assessment.reasoning[1]

-----------------------------------------------------------------------------
(* SpecTrust: LLMJudge._calculate_trust_score of llm_judge_original.py, on   *)
(* the four analysis results it is given.  judge holds the arguments and    *)
(* judge_out the TrustFocusedResult; scores are in thousandths.            *)

KeySecurityResults ==
    { [has_plaintext_keys |-> a, key_generation_secure |-> b,
       key_storage_encrypted |-> c, key_rotation_implemented |-> d,
       key_exposure_risk |-> r] :
        a \in BOOLEAN, b \in BOOLEAN, c \in BOOLEAN, d \in BOOLEAN,
        r \in {"low", "medium", "high", "critical"} }

TransactionControlResults ==
    { [has_spending_limits |-> a, has_approval_mechanisms |-> b,
       emergency_stop_present |-> c, transaction_monitoring |-> d,
       control_strength |-> s] :
        a \in BOOLEAN, b \in BOOLEAN, c \in BOOLEAN, d \in BOOLEAN,
        s \in {"weak", "strong"} }

DeceptionDetectionResults ==
    { [backdoor_detected |-> a, time_bomb_detected |-> b,
       obfuscated_code_found |-> c, risk_level |-> r] :
        a \in BOOLEAN, b \in BOOLEAN, c \in BOOLEAN,
        r \in {"low", "high", "critical"} }

CapitalRiskResults ==
    { [max_loss_bounded |-> a, position_size_controls |-> b,
       stop_loss_implemented |-> c, risk_controls_adequate |-> d] :
        a \in BOOLEAN, b \in BOOLEAN, c \in BOOLEAN, d \in BOOLEAN }

\* _generate_fallback_key_security
generate_fallback_key_security ==
    [has_plaintext_keys |-> TRUE, key_generation_secure |-> FALSE,
     key_storage_encrypted |-> FALSE, key_rotation_implemented |-> FALSE,
     key_exposure_risk |-> "critical"]

\* _generate_fallback_transaction_controls
generate_fallback_transaction_controls ==
    [has_spending_limits |-> FALSE, has_approval_mechanisms |-> FALSE,
     emergency_stop_present |-> FALSE, transaction_monitoring |-> FALSE,
     control_strength |-> "weak"]

\* _generate_fallback_deception_detection
generate_fallback_deception_detection ==
    [backdoor_detected |-> FALSE, time_bomb_detected |-> FALSE,
     obfuscated_code_found |-> TRUE, risk_level |-> "high"]

\* _generate_fallback_capital_risk
generate_fallback_capital_risk ==
    [max_loss_bounded |-> FALSE, position_size_controls |-> FALSE,
     stop_loss_implemented |-> FALSE, risk_controls_adequate |-> FALSE]

\* x if the condition holds, in tenths of a component score
If(cond, x) == IF cond THEN x ELSE 0

\* critical_vulnerabilities, in the order the code appends them
trust_critical_vulnerabilities(key_security, transaction_controls, deception_analysis) ==
    (IF key_security.has_plaintext_keys
     THEN <<"Private keys stored in plaintext">> ELSE <<>>)
    \o (IF ~transaction_controls.has_spending_limits
        THEN <<"No transaction spending limits">> ELSE <<>>)
    \o (IF deception_analysis.backdoor_detected
        THEN <<"Backdoor access detected">> ELSE <<>>)
    \o (IF deception_analysis.risk_level = "critical"
        THEN <<"Critical deception patterns detected">> ELSE <<>>)

\* trust_score in thousandths: component scores in tenths, times the weights
\* 0.3, 0.25, 0.2 and 0.25 in hundredths
trust_score_of(key_security, transaction_controls, deception_analysis, capital_risk) ==
    LET key_score ==
            If(~key_security.has_plaintext_keys, 4)
            + If(key_security.key_generation_secure, 3)
            + If(key_security.key_storage_encrypted, 2)
            + If(key_security.key_rotation_implemented, 1)
        tx_score ==
            If(transaction_controls.has_spending_limits, 4)
            + If(transaction_controls.has_approval_mechanisms, 3)
            + If(transaction_controls.emergency_stop_present, 2)
            + If(transaction_controls.transaction_monitoring, 1)
        deception_score ==
            Max(0, 10 - If(deception_analysis.backdoor_detected, 5)
                      - If(deception_analysis.time_bomb_detected, 3)
                      - If(deception_analysis.obfuscated_code_found, 2))
        capital_score ==
            If(capital_risk.max_loss_bounded, 3)
            + If(capital_risk.position_size_controls, 3)
            + If(capital_risk.stop_loss_implemented, 2)
            + If(capital_risk.risk_controls_adequate, 2)
    IN key_score * 30 + tx_score * 25 + deception_score * 20 + capital_score * 25

\* a threshold that lets a trust score of exactly 0.8 through
reaches_trust_threshold(trust_score) == trust_score >= 800

\* trust_score > 0.8
exceeds_trust_threshold(trust_score) == trust_score > 800

\* _calculate_trust_score
calculate_trust_score(key_security, transaction_controls, deception_analysis, capital_risk) ==
    LET critical_vulnerabilities ==
            trust_critical_vulnerabilities(key_security, transaction_controls,
                                           deception_analysis)
        trust_score ==
            trust_score_of(key_security, transaction_controls,
                           deception_analysis, capital_risk)
        can_trust ==
            /\ Len(critical_vulnerabilities) = 0
            /\ exceeds_trust_threshold(trust_score)
            /\ key_security.key_exposure_risk \in {"low", "medium"}
            /\ transaction_controls.control_strength # "weak"
    IN [kind |-> "TrustFocusedResult",
        can_trust_with_capital |-> can_trust,
        trust_score |-> trust_score,
        key_security |-> key_security,
        transaction_controls |-> transaction_controls,
        critical_vulnerabilities |-> critical_vulnerabilities]

InitTrust ==
    /\ judge \in [key_security : KeySecurityResults,
                  transaction_controls : TransactionControlResults,
                  deception_analysis : DeceptionDetectionResults,
                  capital_risk : CapitalRiskResults]
    /\ judge_pc = "start"
    /\ primary_result = NoneVal
    /\ judge_out = NoneVal
    /\ ScoreIdle /\ PipeIdle /\ BatchIdle /\ BacktestIdle /\ AuditIdle

trust_evaluate ==
    /\ judge_pc = "start"
    /\ judge_out' = calculate_trust_score(judge.key_security,
                         judge.transaction_controls, judge.deception_analysis,
                         judge.capital_risk)
    /\ judge_pc' = "returned"
    /\ UNCHANGED <<judge, primary_result, notJudge>>

SpecTrust == InitTrust /\ [][trust_evaluate]_vars

\* C29: the result's can_trust_with_capital is true exactly when the result
\* lists no critical vulnerability, its trust_score is above 0.8, its
\* key_exposure_risk is low or medium and its control_strength is not weak.
C29_CanTrustIff ==
    judge_pc = "returned" =>
        (judge_out.can_trust_with_capital <=>
            /\ judge_out.critical_vulnerabilities = <<>>
            /\ judge_out.trust_score > 800
            /\ judge_out.key_security.key_exposure_risk \in {"low", "medium"}
            /\ judge_out.transaction_controls.control_strength # "weak")

\* C29 witness: a result with no critical vulnerability, low key exposure and
\* strong controls whose trust score is exactly 0.8 is not trusted with capital.
C29_Witness ==
    /\ judge_pc = "returned"
    /\ judge_out.trust_score = 800
    /\ judge_out.critical_vulnerabilities = <<>>
    /\ judge_out.key_security.key_exposure_risk = "low"
    /\ judge_out.transaction_controls.control_strength = "strong"
    /\ ~judge_out.can_trust_with_capital

\* evaluate_agent returned the fusion of the primary and a secondary result
Fused ==
    /\ judge_pc = "returned" /\ Len(judge.calls) = 2
    /\ judge.calls[2].outcome.kind # "raise"

\* DO_NOT_DEPLOY > CAUTION > DEPLOY
Severity(recommendation) ==
    CASE recommendation = "DO_NOT_DEPLOY" -> 2
      [] recommendation = "CAUTION" -> 1
      [] recommendation = "DEPLOY" -> 0

\* the numeric fields are 0.7 primary + 0.3 secondary, a score adjustment missing
\* on one side counting as 0; the enum fields are the primary's; the flags are
\* the union of both
FusedFieldsAgree(fused, primary, secondary) ==
    /\ fused.code_quality.overall_score =
          (7 * primary.code_quality.overall_score
           + 3 * secondary.code_quality.overall_score) \div 10
    /\ fused.risk_assessment.systemic_risk_score =
          (7 * primary.risk_assessment.systemic_risk_score
           + 3 * secondary.risk_assessment.systemic_risk_score) \div 10
    /\ fused.confidence_level =
          (7 * primary.confidence_level + 3 * secondary.confidence_level) \div 10
    /\ DOMAIN fused.score_adjustments =
          DOMAIN primary.score_adjustments \cup DOMAIN secondary.score_adjustments
    /\ \A k \in DOMAIN fused.score_adjustments :
          fused.score_adjustments[k] =
              (7 * Get(primary.score_adjustments, k, 0)
               + 3 * Get(secondary.score_adjustments, k, 0)) \div 10
    /\ fused.intent_classification = primary.intent_classification
    /\ {fused.behavioral_flags[i] : i \in DOMAIN fused.behavioral_flags} =
          {primary.behavioral_flags[i] : i \in DOMAIN primary.behavioral_flags}
          \cup {secondary.behavioral_flags[i] : i \in DOMAIN secondary.behavioral_flags}

\* C30: the fused result has the weighted numeric fields, the primary's enum
\* fields and the union of the flags, and it carries a recommendation, the
\* more severe of the recommendations of the two results.
C30_EnsembleFusion ==
    Fused =>
        LET primary == primary_result
            secondary == judge.calls[2].outcome
        IN /\ FusedFieldsAgree(judge_out, primary, secondary)
           /\ "trust_recommendation" \in DOMAIN judge_out
           /\ "trust_recommendation" \in DOMAIN primary
           /\ "trust_recommendation" \in DOMAIN secondary
           /\ Severity(judge_out.trust_recommendation) =
                 Max(Severity(primary.trust_recommendation),
                     Severity(secondary.trust_recommendation))

\* float("inf")
PlusInfinity == [kind |-> "inf"]

\* C31: a returned backtest result whose trades have no negative PnL
\* (total_loss = 0) reports a profit factor of +infinity.
C31_ProfitFactorInfinite ==
    (bt_pc = "returned" /\ bt_out.metrics.total_loss = 0) =>
        bt_out.metrics.profit_factor = PlusInfinity

-----------------------------------------------------------------------------
(* The audit log and the audit-list command (SpecAudit)                    *)

MaxAudits == 3

AuditImages == {"shade/finance-agent:latest", "shade/agent:latest"}

Reverse(s) == [i \in 1..Len(s) |-> s[Len(s) + 1 - i]]

image_matches(image_filter, image) ==
    image_filter = "None" \/ image_filter = image

RECURSIVE select_images(_, _)
select_images(s, image_filter) ==
    IF s = <<>> THEN <<>>
    ELSE IF image_matches(image_filter, Head(s).image)
         THEN <<Head(s)>> \o select_images(Tail(s), image_filter)
         ELSE select_images(Tail(s), image_filter)

\* AuditLogger.list_audits(image_filter): the entries of the image, newest first
list_audits(log, image_filter) == select_images(Reverse(log), image_filter)

\* a filter that keeps, of every image, the entry listed last
keep_last_seen(audits) ==
    LET kept == {n \in DOMAIN audits :
                    \A j \in (n + 1)..Len(audits) : audits[j].image # audits[n].image}
        RECURSIVE pick(_)
        pick(n) == IF n = 0 THEN <<>>
                   ELSE IF n \in kept THEN Append(pick(n - 1), audits[n])
                        ELSE pick(n - 1)
    IN pick(Len(audits))

\* audit_list, "if latest:": filtered_audits of the loop over audits, where
\* seen_images holds the images of the audits gone through before
filtered_audits(audits) ==
    LET RECURSIVE upto(_)
        upto(n) ==
            IF n = 0 THEN <<>>
            ELSE IF \A j \in 1..(n - 1) : audits[j].image # audits[n].image
                 THEN Append(upto(n - 1), audits[n])
                 ELSE upto(n - 1)
    IN upto(Len(audits))

InitAudit ==
    /\ audit_log = <<>>
    /\ audit_pc = "open"
    /\ audit_out = NoneVal
    /\ validator = NoneVal
    /\ ScoreIdle /\ PipeIdle /\ BatchIdle /\ JudgeIdle /\ BacktestIdle

\* a verification of one image ends by writing its audit entry
audit_log_verification ==
    /\ audit_pc \in {"open", "listed"}
    /\ Len(audit_log) < MaxAudits
    /\ \E image \in AuditImages, timestamp \in now_after(audit_log) :
          audit_log' = log_verification(audit_log, image, timestamp, NoneVal)
    /\ audit_pc' = "open"
    /\ audit_out' = NoneVal
    /\ UNCHANGED <<validator, notAudit>>

\* arc-verifier audit-list [--image NAME] [--latest]
audit_list ==
    /\ audit_pc \in {"open", "listed"}
    /\ \E image \in AuditImages \cup {"None"}, latest \in BOOLEAN :
          LET audits == list_audits(audit_log, image)
          IN audit_out' = [kind |-> "listed", image |-> image, latest |-> latest,
                           audits |-> IF latest /\ audits # <<>>
                                      THEN filtered_audits(audits)
                                      ELSE audits]
    /\ audit_pc' = "listed"
    /\ UNCHANGED <<audit_log, validator, notAudit>>

NextAudit == audit_log_verification \/ audit_list

SpecAudit == InitAudit /\ [][NextAudit]_vars

\* the entries of the log that a listing with this image filter is about
Matching(image_filter) ==
    {i \in DOMAIN audit_log : image_matches(image_filter, audit_log[i].image)}

C33_EveryAgentLogged ==
    audit_pc = "logged" =>
        /\ Len(audit_log) = batch.total_images
        /\ \A i \in BatchImages :
              \E k \in DOMAIN audit_log :
                 /\ audit_log[k].image = tasks[i].image
                 /\ tasks[i].status = "failed" =>
                        "error" \in DOMAIN audit_log[k].verification_result

-----------------------------------------------------------------------------
(* TEEValidator.validate (SpecValidate)                                    *)

MaxValidations == 3

\* image tags, in lower case, as the words the patterns are looked up in
ImageTags ==
    { <<"shade", "finance", "agent", "latest">>,
      <<"malicious", "bot", "latest">>,
      <<"nginx", "latest">>,
      <<"test", "latest">> }

\* any(pattern in image_tag.lower() for pattern in patterns)
any_pattern_in(patterns, image_tag) ==
    \E k \in DOMAIN image_tag : image_tag[k] \in patterns

untrusted_patterns ==
    {"malicious", "test-malware", "compromised", "unsigned", "debug-backdoor",
     "insecure"}

trusted_patterns ==
    {"shade", "agent", "near", "pivortex", "finance", "nginx", "ubuntu",
     "alpine", "node", "python"}

platform_types == <<"Intel SGX", "AMD SEV", "ARM TrustZone", "Mock TEE">>

\* _assess_image_trustworthiness; random_draw stands for random.random() > 0.1
assess_image_trustworthiness(image_tag, random_draw) ==
    IF any_pattern_in(untrusted_patterns, image_tag) THEN FALSE
    ELSE IF any_pattern_in(trusted_patterns, image_tag) THEN TRUE
    ELSE random_draw

\* _select_platform_type; hash_val stands for abs(hash(image_tag)) % 4
select_platform_type(image_tag, hash_val) ==
    IF any_pattern_in({"shade", "agent", "near"}, image_tag) THEN "Intel SGX"
    ELSE platform_types[hash_val + 1]

\* _calculate_trust_level
calculate_trust_level(is_valid, image_tag) ==
    IF ~is_valid THEN "UNTRUSTED"
    ELSE IF any_pattern_in({"shade", "pivortex", "near"}, image_tag) THEN "HIGH"
    ELSE IF any_pattern_in({"nginx", "ubuntu", "alpine"}, image_tag) THEN "MEDIUM"
    ELSE "LOW"

\* _generate_attestation_result
generate_attestation_result(image_tag, random_draw, hash_val) ==
    LET is_valid == assess_image_trustworthiness(image_tag, random_draw)
    IN [image_tag |-> image_tag,
        is_valid |-> is_valid,
        platform |-> select_platform_type(image_tag, hash_val),
        trust_level |-> calculate_trust_level(is_valid, image_tag)]

\* one process: str hashes are fixed when the interpreter starts
InitValidate ==
    /\ validator \in { [hash |-> h, results |-> <<>>] :
                          h \in [ImageTags -> 0..(Len(platform_types) - 1)] }
    /\ audit_log = <<>> /\ audit_pc = "idle" /\ audit_out = NoneVal
    /\ ScoreIdle /\ PipeIdle /\ BatchIdle /\ JudgeIdle /\ BacktestIdle

validate ==
    /\ Len(validator.results) < MaxValidations
    /\ \E image_tag \in ImageTags, random_draw \in BOOLEAN :
          validator' = [validator EXCEPT !.results =
              Append(@, generate_attestation_result(image_tag, random_draw,
                                                    validator.hash[image_tag]))]
    /\ UNCHANGED <<audit_log, audit_pc, audit_out, notAudit>>

SpecValidate == InitValidate /\ [][validate]_vars

\* C34: any two calls of validate for the same image tag give the same is_valid
\* and the same platform.
C34_ConsistentResults ==
    (validator # NoneVal) =>
        \A i, j \in DOMAIN validator.results :
            validator.results[i].image_tag = validator.results[j].image_tag =>
                /\ validator.results[i].is_valid = validator.results[j].is_valid
                /\ validator.results[i].platform = validator.results[j].platform

-----------------------------------------------------------------------------
(* Further claims about the judge (SpecJudge)                               *)

\* an evaluation by the fallback provider gives a result whatever the
\* transport does
SecondarySucceeds ==
    /\ judge.fallback_provider # "None"
    /\ \A transport \in TransportOutcomes :
          run_evaluation(judge.fallback_provider,
                         judge.fallback_provider \in judge.api_keys,
                         transport).kind # "raise"

\* C35: when the primary evaluation raised, ensemble is enabled and the
\* secondary provider's evaluation succeeds, evaluate_agent has run the
\* secondary evaluation and its result is not the conservative fallback.
C35_SecondaryRescuesPrimary ==
    (/\ judge_pc = "returned"
     /\ judge.calls[1].outcome.kind = "raise"
     /\ judge.enable_ensemble
     /\ SecondarySucceeds)
        => /\ Len(judge.calls) = 2
           /\ judge.calls[2].provider = judge.fallback_provider
           /\ ~IsConservative(judge_out)

\* C37: when the primary evaluation gave a result and the secondary evaluation
\* raised, evaluate_agent returns the primary result as it was.
C37_SecondaryFailureKeepsPrimary ==
    (/\ judge_pc = "returned"
     /\ Len(judge.calls) = 2
     /\ judge.calls[1].outcome.kind # "raise"
     /\ judge.calls[2].outcome.kind = "raise")
        => /\ judge_out = judge.calls[1].outcome
           /\ judge_out = primary_result

\* the primary gave a parsed result that is not the fallback assessment, the
\* secondary raised, and evaluate_agent has returned
C37_Witness ==
    /\ judge_pc = "returned"
    /\ Len(judge.calls) = 2
    /\ judge.calls[1].outcome.kind = "LLMJudgeResult"
    /\ judge.calls[1].outcome # fallback_assessment
    /\ judge.calls[2].provider = judge.fallback_provider
    /\ judge.calls[2].outcome.kind = "raise"

\* one of the four analyzers failed and gave its conservative fallback result
AnalyzerFellBack ==
    \/ judge.key_security = generate_fallback_key_security
    \/ judge.transaction_controls = generate_fallback_transaction_controls
    \/ judge.deception_analysis = generate_fallback_deception_detection
    \/ judge.capital_risk = generate_fallback_capital_risk

\* C36: when one of the four analysis results is the analyzer's conservative
\* fallback, the fused assessment has can_trust_with_capital false, whatever
\* the other three results are.
C36_FallbackNeverTrusted ==
    (judge_pc = "returned" /\ AnalyzerFellBack)
        => ~judge_out.can_trust_with_capital

-----------------------------------------------------------------------------
(* Further claims about the Fort Score (SpecScore)                          *)

\* C38: the Fort Score computation returns a score and never raises, for every
\* strategy verification result, the one with an empty per-regime performance
\* map included.
C38_ScoreIsTotal ==
    /\ ~IsNone(cli_verdict) => cli_verdict.kind = "result"
    /\ ~IsNone(par_verdict) => par_verdict.kind = "result"

-----------------------------------------------------------------------------
(* The life of a verification task (SpecBatch)                              *)

\* the moves of VerificationTask.status
StatusMoves ==
    {<<"pending", "running">>, <<"running", "completed">>, <<"running", "failed">>}

StatusMovesAllowed ==
    \A i \in BatchImages :
        tasks'[i].status # tasks[i].status
            => <<tasks[i].status, tasks'[i].status>> \in StatusMoves

AllFinal ==
    batch.kind = "BatchVerificationResult"
        => \A i \in BatchImages : tasks[i].status \in {"completed", "failed"}

\* C39: a task's status only moves pending -> running -> completed or
\* pending -> running -> failed, completed and failed are left by no step, and
\* once verify_batch has returned its result every task is completed or failed.
C39_TaskStatusLifecycle ==
    [][StatusMovesAllowed]_vars /\ []AllFinal

\* verify_batch has returned with one task completed and another failed, the
\* failed one by an exception of its pipeline
C39_Witness ==
    /\ batch.kind = "BatchVerificationResult"
    /\ \E i, j \in BatchImages :
          /\ tasks[i].status = "completed"
          /\ tasks[j].status = "failed" /\ IsException(gathered[j])
=============================================================================
